---------------------------- MODULE Spec2Model ----------------------------
(***************************************************************************)
(* Verification model of the KEGG data-acquisition scripts                 *)
(*   getDiseasePathways.py, getDrugPathways.py and                         *)
(*   getSMILESforDrugsAndCompounds.py.                                     *)
(*                                                                         *)
(* The scripts are independent batch jobs, so the model is a family of     *)
(* specifications over one set of variables, one per component:            *)
(*   SpecRetry    the two retrying HTTP helpers                            *)
(*   SpecLimiter  RateLimiter.acquire called from several worker threads   *)
(* Each specification leaves the variables of the other components at      *)
(* their initial values.                                                   *)
(***************************************************************************)
EXTENDS Integers, Sequences, FiniteSets, TLC

VARIABLES
    \* ---- retry helpers (make_request_with_retry / request_with_retry)
    max_retries,   \* the max_retries argument, the same for both helpers
    script,        \* script[k]: what the k-th GET of the URL produces (the
                   \* URL answers both helpers alike)
    rpc,           \* rpc[h]: position of helper h in its loop
    attempt,       \* attempt[h]: number of completed loop iterations
    gets,          \* gets[h]: number of requests.get calls issued so far
    sleeps,        \* sleeps[h]: number of sleep calls performed so far
    ret,           \* ret[h]: the value returned by helper h
    initial_delay, \* the initial_delay argument, in tenths of a second
    pause,         \* the pause argument, in tenths of a second
    delay,         \* delay[h]: the time slept last by helper h (0: none)
    \* ---- RateLimiter and the worker threads calling acquire()
    max_calls,     \* self.max_calls
    time_period,   \* self.time_period
    calls,         \* self.calls: FIFO queue of recorded timestamps
    lock,          \* self.lock: the thread holding it, or NoThread
    now,           \* the wall clock read by time.time()
    tpc,           \* tpc[t]: position of thread t in acquire()
    current_time,  \* current_time[t]: the local of acquire()
    wake_at,       \* wake_at[t]: clock value at which t's time.sleep ends
    acquired,      \* acquired[t]: number of acquire() calls t has begun
    grants,        \* the acquire() calls that returned, in order of return
    naps,          \* time.sleep calls of each thread's present acquire()
    \* ---- flat-file section extractors
    fn,            \* the extractor that is running
    epc,           \* its position: "scan", "done" or "raised"
    lineNo,        \* number of lines of the record scanned so far
    line,          \* the line scanned last
    in_section,    \* in_pathway_section / in_target_section / in_drug_section
    pathways,      \* get_disease_pathways: the set the scan adds to
    found,         \* finder extractors: the list pathways / targets / drugs
    shape,         \* history: how far the record read so far fits the
                   \* shape "header, 3 indented lines, non-indented line"
    expected,      \* history: the codes on the header and the 3 lines
    expectedFirst, \* history: the first code of each of those lines
    skipped,       \* history: a codeless line was scanned in the open section
    \* ---- fan-out stages
    pipeline,      \* which script / entry point is running
    \* getDiseasePathways.py: main and process_diseases_chunk
    diseases,      \* the disease list (main) or the disease_ids argument
    n_workers,     \* args.n_workers
    mpc,           \* position of main
    disease_chunks,\* the list of chunks built by main
    cstate,        \* cstate[c]: chunk c is "queued", "running" or "done"
    cpos,          \* cpos[c]: index in chunk c of the next disease_id
    cres,          \* cres[c]: the results list of process_diseases_chunk
    all_results,   \* main's flattened result list
    uncaught,      \* an exception escaped (the script ends with a traceback)
    raisedIds,     \* history: the IDs whose get_disease_pathways raised
    noDataIds,     \* history: the IDs whose every request returned None
    scenarioIds,   \* history: the IDs answered as in the end-to-end scenario
    returnedPairs, \* history: the (disease_id, pathway) pairs returned per item
    sql_file,      \* the statements written to insert_disease_pathways.sql
    counts,        \* the three counters write_sql_file returns
    \* getDrugPathways.py: ParallelDrugPathwayFinder.run_parallel_methods
    drug_ids,      \* self.drug_ids
    pathway_ids,   \* self.pathway_ids
    disease_drug_pairs, \* the rows of the DiseaseDrugs table
    fpc,           \* position of run_parallel_methods
    method,        \* the method (1..5) that is running or ran last
    tasks,         \* the arguments of the tasks submitted by the method
    tstate,        \* tstate[i]: "pending", "running", "done" or "failed"
    tresult,       \* tresult[i]: what task i returned
    consumed,      \* the futures as_completed has handed to the loop, in order
    disease_pathways,   \* method 5: the dict disease -> pathways
    drug_pathway_pairs, \* self.drug_pathway_pairs
    caught,        \* run_parallel_methods' except clause ran
    saves,         \* number of save_results calls
    table,         \* the rows of the DrugPathways table
    produced,      \* history: the pairs returned by tasks that succeeded
    started,       \* history: the methods that were started
    \* getSMILESforDrugsAndCompounds.py: the per-item thread pool
    items,         \* the slice of IDs to process
    workers,       \* args.workers
    spc,           \* position of the main block
    sstate,        \* sstate[i]: "pending", "running", "done" or "failed"
    structures,    \* the rows of the structure table
    sraised,       \* history: the items whose task raised
    mol_files,     \* the files of mol_files/: id -> text
    molcall,       \* history: what get_mol_file did for each item
    conns,         \* the tasks whose database connection is open
    commits,       \* history: the (id, smiles) inserts committed, in order
    \* getSMILESforDrugsAndCompounds.py: get_disease_compounds, save_chunk
    dp_table,      \* the rows of the DiseasePathways table
    cp,            \* the response to link/compound/pathway
    gpc,           \* position of get_disease_compounds
    lpos,          \* index of the link line being processed
    dpos,          \* index of the disease being tried for that line
    current_chunk, \* current_chunk
    chunk_num,     \* chunk_num
    total_processed, \* total_processed
    flushing,      \* the save_chunk call in progress is the final flush
    dctable,       \* the rows of the DiseaseCompounds table
    sconn,         \* save_chunk's connection is open
    handed,        \* history: the chunks passed to save_chunk, with result
    generated      \* history: the associations appended to a chunk

retryVars == <<max_retries, script, rpc, attempt, gets, sleeps, ret,
               initial_delay, pause, delay>>

limVars == <<max_calls, time_period, calls, lock, now, tpc, current_time,
             wake_at, acquired, grants, naps>>

extVars == <<fn, epc, lineNo, line, in_section, pathways, found, shape,
             expected, expectedFirst, skipped>>

disVars == <<diseases, n_workers, mpc, disease_chunks, cstate, cpos, cres,
             all_results, raisedIds, noDataIds, scenarioIds, returnedPairs,
             sql_file, counts>>

finVars == <<drug_ids, pathway_ids, disease_drug_pairs, fpc, method, tasks,
             tstate, tresult, consumed, disease_pathways, drug_pathway_pairs,
             caught, saves, table, produced, started>>

smiVars == <<items, workers, spc, sstate, structures, sraised, mol_files,
             molcall, conns, commits>>

comVars == <<dp_table, cp, gpc, lpos, dpos, current_chunk, chunk_num,
             total_processed, flushing, dctable, sconn, handed, generated>>

fanVars == <<pipeline, uncaught, disVars, finVars, smiVars, comVars>>

vars == <<retryVars, limVars, extVars, fanVars>>

\* The variables each component leaves alone.
retryOthers == <<limVars, extVars, fanVars>>

limOthers == <<retryVars, extVars, fanVars>>

extOthers == <<retryVars, limVars, fanVars>>

fanOthers == <<retryVars, limVars, extVars>>

-----------------------------------------------------------------------------
(***************************************************************************)
(* Retrying HTTP helpers                                                   *)
(***************************************************************************)

\* Largest max_retries argument explored (the scripts' default is 20).
MaxRetries == 3

Helpers == {"make_request_with_retry", "request_with_retry"}

\* Times are counted in tenths of a second.
\* initial_delay=1 / pause=1, the defaults every call site uses.
DefaultDelay == 10

\* The base delays explored: the default, and one half a second under
\* the cap.
BaseDelays == {DefaultDelay, 595}

\* min(delay, 60)
DelayCap == 600

\* The values of random.uniform(0, 1) / random.uniform(0.1, 1.0) explored:
\* the two ends of the window.
Jitter(h) == IF h = "make_request_with_retry" THEN {0, 10} ELSE {1, 10}

\* What one requests.get call can produce: an exception, or a response with
\* a status code and a body that is blank (empty after strip()) or not.
StatusCodes == {200, 500}

Outcomes ==
    {[kind |-> "exc", status |-> 0, blank |-> TRUE]} \cup
    [kind : {"resp"}, status : StatusCodes, blank : BOOLEAN]

None == [kind |-> "None"]

NotReturned == [kind |-> "running"]

\* The value a helper returns on success: the response object of attempt k.
Response(k, o) == [kind |-> "resp", attempt |-> k, status |-> o.status, blank |-> o.blank]

\* Mutant of Succeeds: the status code is not looked at.
SucceedsAnyStatus(h, o) == o.kind = "resp"

\* The success test of each helper on the response of one GET.
Succeeds(h, o) ==
    IF h = "make_request_with_retry"
    THEN o.kind = "resp" /\ o.status = 200
    ELSE o.kind = "resp" /\ o.status = 200 /\ ~o.blank

\* `except Exception` around the GET: every request exception is caught.
Catches(h, o) == o.kind = "exc"

\* Mutant of LoopContinues: one iteration too many.
LoopContinuesOffByOne(h) == attempt[h] <= max_retries

\* A loop whose one-based range stops one attempt early.
LoopContinuesShortRange(h) ==
    IF h = "request_with_retry" THEN attempt[h] + 1 < max_retries
    ELSE attempt[h] < max_retries

\* for attempt in range(max_retries) / range(1, max_retries + 1)
LoopContinues(h) == attempt[h] < max_retries

\* The helpers before any call, for the specifications of other components.
IdleRetry ==
    /\ max_retries = 0
    /\ script = << >>
    /\ rpc = [h \in Helpers |-> "loop"]
    /\ attempt = [h \in Helpers |-> 0]
    /\ gets = [h \in Helpers |-> 0]
    /\ sleeps = [h \in Helpers |-> 0]
    /\ ret = [h \in Helpers |-> NotReturned]
    /\ initial_delay = DefaultDelay
    /\ pause = DefaultDelay
    /\ delay = [h \in Helpers |-> 0]

InitRetry ==
    /\ max_retries \in 0..MaxRetries
    /\ script \in [1..MaxRetries -> Outcomes]
    /\ rpc = [h \in Helpers |-> "loop"]
    /\ attempt = [h \in Helpers |-> 0]
    /\ gets = [h \in Helpers |-> 0]
    /\ sleeps = [h \in Helpers |-> 0]
    /\ ret = [h \in Helpers |-> NotReturned]
    /\ initial_delay \in BaseDelays
    /\ pause = initial_delay
    /\ delay = [h \in Helpers |-> 0]

\* Loop head: next iteration, or fall out of the loop and return None.
LoopHead(h) ==
    /\ rpc[h] = "loop"
    /\ IF LoopContinues(h)
       THEN /\ rpc' = [rpc EXCEPT ![h] = "get"]
            /\ ret' = ret
       ELSE /\ rpc' = [rpc EXCEPT ![h] = "done"]
            /\ ret' = [ret EXCEPT ![h] = None]
    /\ UNCHANGED <<max_retries, script, attempt, gets, sleeps,
                   initial_delay, pause, delay>>
    /\ UNCHANGED retryOthers

\* The rest of one iteration after requests.get produced outcome o as the
\* k-th GET: return the response, or go on to the sleep.
GetOutcome(h, k, o) ==
    /\ gets' = [gets EXCEPT ![h] = k]
    /\ IF Succeeds(h, o)
       THEN /\ rpc' = [rpc EXCEPT ![h] = "done"]
            /\ ret' = [ret EXCEPT ![h] = Response(k, o)]
       ELSE IF o.kind = "exc" /\ ~Catches(h, o)
       THEN /\ rpc' = [rpc EXCEPT ![h] = "raised"]
            /\ ret' = ret
       ELSE /\ rpc' = [rpc EXCEPT ![h] = "sleep"]
            /\ ret' = ret

\* try: response = requests.get(url); return it when the success test passes.
\* (The guard on gets only caps a loop that runs away; the loop bound keeps
\* gets below it.)
Get(h) ==
    /\ rpc[h] = "get"
    /\ gets[h] < MaxRetries
    /\ GetOutcome(h, gets[h] + 1, script[gets[h] + 1])
    /\ UNCHANGED <<max_retries, script, attempt, sleeps,
                   initial_delay, pause, delay>>
    /\ UNCHANGED retryOthers

\* A delay that doubles with every attempt (exponential backoff).
DelayDoubles(h, k, j) ==
    IF h = "make_request_with_retry"
    THEN LET d == initial_delay * (2 ^ k) + j
         IN IF d < DelayCap THEN d ELSE DelayCap
    ELSE pause * (2 ^ k) + j

\* The delay computed in iteration k with jitter j:
\* min(initial_delay + random.uniform(0, 1), 60), or
\* pause + random.uniform(0.1, 1.0).
Delay(h, k, j) ==
    IF h = "make_request_with_retry"
    THEN LET d == initial_delay + j
         IN IF d < DelayCap THEN d ELSE DelayCap
    ELSE pause + j

\* A helper that does not sleep after its last attempt.
SleepsUnlessLast(h, k) == k + 1 < max_retries

\* Whether the failed iteration k (counted from 0) ends in a sleep: the
\* sleep statement is the last of the loop body, under no condition.
SleepsAfter(h, k) == TRUE

\* sleep(delay) at the end of a failed iteration.
Sleep(h) ==
    /\ rpc[h] = "sleep"
    /\ \E j \in Jitter(h) :
          delay' = [delay EXCEPT ![h] = Delay(h, attempt[h], j)]
    /\ sleeps' = [sleeps EXCEPT ![h] =
                      IF SleepsAfter(h, attempt[h]) THEN @ + 1 ELSE @]
    /\ attempt' = [attempt EXCEPT ![h] = @ + 1]
    /\ rpc' = [rpc EXCEPT ![h] = "loop"]
    /\ UNCHANGED <<max_retries, script, gets, ret, initial_delay, pause>>
    /\ UNCHANGED retryOthers

NextRetry == \E h \in Helpers : LoopHead(h) \/ Get(h) \/ Sleep(h)

-----------------------------------------------------------------------------
(***************************************************************************)
(* RateLimiter (getDrugPathways.py) called by worker threads               *)
(*                                                                         *)
(* Time is counted in whole clock units.  Statements take no time: the     *)
(* clock advances only while no thread is executing statements inside the  *)
(* lock, that is, while the lock is free or its holder is in time.sleep.   *)
(***************************************************************************)

\* The acquire() calls a thread makes, numbered.
AcquireCalls == {1, 2}

\* Largest max_calls / time_period constructor argument explored (the
\* finder constructs RateLimiter(max_calls=50, time_period=60)).
MaxCallsArg == 2

MaxPeriodArg == 2

\* The clock stops advancing here while no thread sleeps.
MaxTime == 3

\* The worker threads calling acquire().
Threads == {1, 2}

NoThread == 0

\* Positions inside `with self.lock:`.
InLock == {"clock", "evict", "check", "sleeping", "put"}

IdleLimiter ==
    /\ max_calls = 1
    /\ time_period = 1
    /\ calls = << >>
    /\ lock = NoThread
    /\ now = 0
    /\ tpc = [t \in Threads |-> "idle"]
    /\ current_time = [t \in Threads |-> 0]
    /\ wake_at = [t \in Threads |-> 0]
    /\ acquired = [t \in Threads |-> 0]
    /\ grants = << >>
    /\ naps = [t \in Threads |-> 0]

\* RateLimiter.__init__: an empty queue and a free lock.
InitLimiter ==
    /\ max_calls \in 1..MaxCallsArg
    /\ time_period \in 1..MaxPeriodArg
    /\ calls = << >>
    /\ lock = NoThread
    /\ now = 0
    /\ tpc = [t \in Threads |-> "idle"]
    /\ current_time = [t \in Threads |-> 0]
    /\ wake_at = [t \in Threads |-> 0]
    /\ acquired = [t \in Threads |-> 0]
    /\ grants = << >>
    /\ naps = [t \in Threads |-> 0]

\* A thread calls self.rate_limiter.acquire() (kegg_api_request).
CallAcquire(t) ==
    /\ tpc[t] = "idle"
    /\ acquired[t] + 1 \in AcquireCalls
    /\ acquired' = [acquired EXCEPT ![t] = @ + 1]
    /\ tpc' = [tpc EXCEPT ![t] = "lock"]
    /\ naps' = [naps EXCEPT ![t] = 0]
    /\ UNCHANGED <<max_calls, time_period, calls, lock, now, current_time,
                   wake_at, grants>>
    /\ UNCHANGED limOthers

\* Mutant of LockFree: the lock is not taken (acquire without `with`).
LockIgnored == TRUE

\* threading.Lock: free when no thread holds it.
LockFree == lock = NoThread

\* with self.lock: (__enter__)
TakeLock(t) ==
    /\ tpc[t] = "lock"
    /\ LockFree
    /\ lock' = t
    /\ tpc' = [tpc EXCEPT ![t] = "clock"]
    /\ UNCHANGED <<max_calls, time_period, calls, now, current_time,
                   wake_at, acquired, grants, naps>>
    /\ UNCHANGED limOthers

\* current_time = time.time()
ReadClock(t) ==
    /\ tpc[t] = "clock"
    /\ current_time' = [current_time EXCEPT ![t] = now]
    /\ tpc' = [tpc EXCEPT ![t] = "evict"]
    /\ UNCHANGED <<max_calls, time_period, calls, lock, now, wake_at,
                   acquired, grants, naps>>
    /\ UNCHANGED limOthers

\* One iteration of `while not self.calls.empty()`: drop the oldest
\* timestamp if it is at least time_period old, else leave the loop.
Evict(t) ==
    /\ tpc[t] = "evict"
    /\ IF calls # << >> /\ ~(current_time[t] - Head(calls) < time_period)
       THEN /\ calls' = Tail(calls)
            /\ tpc' = tpc
       ELSE /\ calls' = calls
            /\ tpc' = [tpc EXCEPT ![t] = "check"]
    /\ UNCHANGED <<max_calls, time_period, lock, now, current_time, wake_at,
                   acquired, grants, naps>>
    /\ UNCHANGED limOthers

\* Mutant of SleepTime: the time already elapsed is not subtracted.
SleepTimeFromEpoch(t) == Head(calls) + time_period

\* sleep_time = self.calls.queue[0] + self.time_period - current_time
SleepTime(t) == Head(calls) + time_period - current_time[t]

\* Mutant of AtLimit: the comparison is strict.
AtLimitStrict == Len(calls) > max_calls

\* self.calls.qsize() >= self.max_calls
AtLimit == Len(calls) >= max_calls

\* if self.calls.qsize() >= self.max_calls: ... if sleep_time > 0: sleep
Check(t) ==
    /\ tpc[t] = "check"
    /\ IF AtLimit /\ SleepTime(t) > 0
       THEN /\ wake_at' = [wake_at EXCEPT ![t] = now + SleepTime(t)]
            /\ naps' = [naps EXCEPT ![t] = @ + 1]
            /\ tpc' = [tpc EXCEPT ![t] = "sleeping"]
       ELSE /\ wake_at' = wake_at
            /\ naps' = naps
            /\ tpc' = [tpc EXCEPT ![t] = "put"]
    /\ UNCHANGED <<max_calls, time_period, calls, lock, now, current_time,
                   acquired, grants>>
    /\ UNCHANGED limOthers

\* time.sleep(sleep_time) returns once the time has passed.
Wake(t) ==
    /\ tpc[t] = "sleeping"
    /\ now >= wake_at[t]
    /\ tpc' = [tpc EXCEPT ![t] = "put"]
    /\ UNCHANGED <<max_calls, time_period, calls, lock, now, current_time,
                   wake_at, acquired, grants, naps>>
    /\ UNCHANGED limOthers

\* self.calls.put(current_time), then the lock is released and acquire()
\* returns: the call is granted at the present clock value.
Put(t) ==
    /\ tpc[t] = "put"
    /\ calls' = Append(calls, current_time[t])
    /\ lock' = IF lock = t THEN NoThread ELSE lock
    /\ grants' = Append(grants, [stamp |-> current_time[t], at |-> now])
    /\ tpc' = [tpc EXCEPT ![t] = "idle"]
    /\ UNCHANGED <<max_calls, time_period, now, current_time, wake_at,
                   acquired, naps>>
    /\ UNCHANGED limOthers

\* The clock advances by one unit.  Past MaxTime it advances only as far
\* as a thread in time.sleep needs to wake up.
Tick ==
    /\ \/ now < MaxTime
       \/ \E t \in Threads : tpc[t] = "sleeping" /\ now < wake_at[t]
    /\ \A t \in Threads : tpc[t] \in InLock => tpc[t] = "sleeping"
    /\ now' = now + 1
    /\ UNCHANGED <<max_calls, time_period, calls, lock, tpc, current_time,
                   wake_at, acquired, grants, naps>>
    /\ UNCHANGED limOthers

NextLimiter ==
    \/ \E t \in Threads :
          \/ CallAcquire(t)
          \/ TakeLock(t)
          \/ ReadClock(t)
          \/ Evict(t)
          \/ Check(t)
          \/ Wake(t)
          \/ Put(t)
    \/ Tick

-----------------------------------------------------------------------------
(***************************************************************************)
(* Flat-file section extractors                                            *)
(*   the PATHWAY scan of get_disease_pathways (getDiseasePathways.py)      *)
(*   _extract_pathways_from_entry, _extract_drug_targets and               *)
(*   _extract_drugs_from_pathway (getDrugPathways.py)                      *)
(*                                                                         *)
(* A line is its number of leading spaces, whether the text after them     *)
(* begins with the extractor's section keyword, and the words that follow. *)
(* A word is the digit string that follows the prefix of the extractor's   *)
(* code pattern (hsa, hsa: or D); a word holding no code has no digits.    *)
(***************************************************************************)

\* Longest record scanned.
MaxLines == 6

Extractors == {"get_disease_pathways", "_extract_pathways_from_entry",
               "_extract_drug_targets", "_extract_drugs_from_pathway"}

\* Number of digits of the pattern hsa\d{5}.
CodeDigits == 5

WordPlain == << >>

WordShort == <<0, 4>>

WordCode1 == <<0, 4, 9, 1, 0>>

WordCode2 == <<0, 4, 9, 3, 0>>

\* What follows the keyword or the indentation on a line: nothing, text
\* without a code, a code too short for hsa\d{5}, one code, two codes.
LineWords == {<< >>, <<WordPlain>>, <<WordShort>>, <<WordCode1>>,
              <<WordCode1, WordCode2>>}

\* Header lines (the keyword in column 0) and lines indented by 0, 1 or 2
\* spaces that do not begin with the keyword.
Lines == [indent : {0}, kw : {TRUE}, words : LineWords] \cup
         [indent : {0, 1, 2}, kw : {FALSE}, words : LineWords]

NoLine == [indent |-> 0, kw |-> FALSE, words |-> << >>]

Range(q) == {q[i] : i \in 1..Len(q)}

\* line.startswith('PATHWAY') / ('TARGET') / ('DRUG')
StartsWithKeyword(ln) == ln.indent = 0 /\ ln.kw

\* Mutant of StartsWithIndent: one leading space is taken for indentation.
StartsWithOneSpace(ln) == ln.indent >= 1

\* line.startswith('  ')
StartsWithIndent(ln) == ln.indent >= 2

\* The match of the extractor's pattern in one word, << >> if there is none:
\* hsa\d{5} takes exactly five digits; hsa\d+, hsa:\d+ and D\d+ take them
\* all; _extract_pathways_from_entry puts path: before its match.
MatchWord(f, w) ==
    IF f = "get_disease_pathways"
    THEN IF Len(w) >= CodeDigits
         THEN <<[pfx |-> "hsa", digits |-> SubSeq(w, 1, CodeDigits)]>>
         ELSE << >>
    ELSE IF Len(w) >= 1
         THEN <<[pfx |-> CASE f = "_extract_pathways_from_entry" -> "path:hsa"
                           [] f = "_extract_drug_targets" -> "hsa:"
                           [] OTHER -> "D",
                 digits |-> w]>>
         ELSE << >>

\* re.findall(pattern, line): every match, left to right.
RECURSIVE FindAll(_, _)
FindAll(f, ws) ==
    IF ws = << >> THEN << >>
    ELSE MatchWord(f, Head(ws)) \o FindAll(f, Tail(ws))

\* re.search(pattern, line): the first match only.
Search(f, ws) ==
    IF FindAll(f, ws) = << >> THEN << >> ELSE <<Head(FindAll(f, ws))>>

\* The codes one scanned line yields: get_disease_pathways uses re.search,
\* the finder's extractors use re.findall.
LineCodes(f, ln) ==
    IF f = "get_disease_pathways" THEN Search(f, ln.words)
    ELSE FindAll(f, ln.words)

\* Mutant of MatchGuarded: match.group(0) is used without `if match:`.
MatchUnguarded(f, ln) == TRUE

\* get_disease_pathways: `if pathway_part:` and `if match:` let a line
\* through only when the search found something (the finder's extractors
\* extend their list with whatever findall returns).
MatchGuarded(f, ln) ==
    f = "get_disease_pathways" => (ln.words # << >> /\ Search(f, ln.words) # << >>)

\* Mutant of Closes: a non-indented line does not end the section.
ClosesNever(f, ln) == FALSE

\* The branch that ends the section: `elif not line.startswith("  ") and
\* in_pathway_section` in get_disease_pathways, `elif not
\* line.startswith('  ')` in the finder's extractors.
Closes(f, ln) ==
    IF f = "get_disease_pathways"
    THEN ~StartsWithIndent(ln) /\ in_section
    ELSE ~StartsWithIndent(ln)

\* ---- history of the record read so far (not program state) ----

\* The record shape of the section-extractor property: any lines that are
\* not headers ("before"), the header ("h0"), three indented lines ("h1",
\* "h2", "h3"), a non-indented line that is no header ("closed"), then any
\* lines that are not headers.  "other" is every record that does not fit.
NextShape(sh, ln) ==
    CASE sh = "before" -> IF StartsWithKeyword(ln) THEN "h0" ELSE "before"
      [] sh = "h0" -> IF ln.indent >= 2 THEN "h1" ELSE "other"
      [] sh = "h1" -> IF ln.indent >= 2 THEN "h2" ELSE "other"
      [] sh = "h2" -> IF ln.indent >= 2 THEN "h3" ELSE "other"
      [] sh = "h3" -> IF ln.indent < 2 /\ ~StartsWithKeyword(ln)
                      THEN "closed" ELSE "other"
      [] sh = "closed" -> IF StartsWithKeyword(ln) THEN "other" ELSE "closed"
      [] OTHER -> "other"

InSectionShape(sh) == sh \in {"h0", "h1", "h2", "h3"}

IdleExtract ==
    /\ fn = "get_disease_pathways"
    /\ epc = "done"
    /\ lineNo = 0
    /\ line = NoLine
    /\ in_section = FALSE
    /\ pathways = {}
    /\ found = << >>
    /\ shape = "before"
    /\ expected = {}
    /\ expectedFirst = {}
    /\ skipped = FALSE

\* pathways = [] ; in_pathway_section = False
InitExtract ==
    /\ fn \in Extractors
    /\ epc = "scan"
    /\ lineNo = 0
    /\ line = NoLine
    /\ in_section = FALSE
    /\ pathways = {}
    /\ found = << >>
    /\ shape = "before"
    /\ expected = {}
    /\ expectedFirst = {}
    /\ skipped = FALSE

\* The scanned line is a header or a continuation line of the open section.
Scanned(ln) ==
    StartsWithKeyword(ln) \/ (StartsWithIndent(ln) /\ in_section)

\* One iteration of `for line in lines:` on the next line ln of the record.
ScanStep(ln) ==
    /\ lineNo' = lineNo + 1
    /\ line' = ln
    /\ in_section' = IF StartsWithKeyword(ln) THEN TRUE
                     ELSE IF StartsWithIndent(ln) /\ in_section THEN TRUE
                     ELSE IF Closes(fn, ln) THEN FALSE
                     ELSE in_section
    /\ IF Scanned(ln) /\ MatchGuarded(fn, ln)
       THEN IF LineCodes(fn, ln) = << >> /\ fn = "get_disease_pathways"
            THEN \* match is None: match.group(0) raises AttributeError
                 /\ epc' = "raised"
                 /\ UNCHANGED <<pathways, found>>
            ELSE /\ epc' = epc
                 /\ pathways' = IF fn = "get_disease_pathways"
                                THEN pathways \cup Range(LineCodes(fn, ln))
                                ELSE pathways
                 /\ found' = IF fn = "get_disease_pathways"
                             THEN found
                             ELSE found \o LineCodes(fn, ln)
       ELSE /\ epc' = epc
            /\ UNCHANGED <<pathways, found>>
    /\ shape' = NextShape(shape, ln)
    /\ expected' = IF InSectionShape(NextShape(shape, ln))
                   THEN expected \cup Range(FindAll(fn, ln.words))
                   ELSE expected
    /\ expectedFirst' = IF InSectionShape(NextShape(shape, ln))
                        THEN expectedFirst \cup Range(Search(fn, ln.words))
                        ELSE expectedFirst
    /\ skipped' = IF StartsWithIndent(ln) /\ in_section
                  THEN skipped \/ FindAll(fn, ln.words) = << >>
                  ELSE FALSE

\* The scan reads the next line of the record.  get_disease_pathways scans
\* response.text.strip().split('\n'), whose first line has no leading space.
ScanLine ==
    /\ epc = "scan"
    /\ lineNo < MaxLines
    /\ \E ln \in Lines :
          /\ (fn = "get_disease_pathways" /\ lineNo = 0) => ln.indent = 0
          /\ ScanStep(ln)
    /\ UNCHANGED fn
    /\ UNCHANGED extOthers

\* The record has no more lines: the extractor returns.
EndOfRecord ==
    /\ epc = "scan"
    /\ epc' = "done"
    /\ UNCHANGED <<fn, lineNo, line, in_section, pathways, found, shape,
                   expected, expectedFirst, skipped>>
    /\ UNCHANGED extOthers

NextExtract == ScanLine \/ EndOfRecord

\* What the extractor has extracted, as a set of codes.
Extracted == IF fn = "get_disease_pathways" THEN pathways ELSE Range(found)

-----------------------------------------------------------------------------
(***************************************************************************)
(* Fan-out stages.  One of the scripts (or, for process_diseases_chunk, a  *)
(* direct call of the function) runs in each behaviour.                    *)
(***************************************************************************)

Pipelines == {"main", "process_diseases_chunk", "run_parallel_methods",
              "smiles", "get_disease_compounds"}

Max(a, b) == IF a >= b THEN a ELSE b

Min(a, b) == IF a <= b THEN a ELSE b

-----------------------------------------------------------------------------
(***************************************************************************)
(* getDiseasePathways.py: main splits the diseases into chunks, a process  *)
(* pool runs process_diseases_chunk on each chunk, main flattens.          *)
(***************************************************************************)

\* The disease lists get_kegg_diseases returns in the runs explored: the
\* prefixes of a list of three IDs.
DiseaseLists == {[i \in 1..n |-> i] : n \in 0..3}

\* Largest --n-workers argument (its default is 4).
MaxWorkersArg == 2

\* Pathway IDs of the disease script: the text before the digits, and the
\* digits.
PathwayId(pfx, digits) == [pfx |-> pfx, digits |-> digits]

\* A replace that leaves the identifier as received.
RemovePathKeeps(pw) == pw

\* pathway.replace("path:", "")
RemovePath(pw) ==
    PathwayId(CASE pw.pfx = "path:hsa" -> "hsa"
                [] pw.pfx = "path:map" -> "map"
                [] OTHER -> pw.pfx,
              pw.digits)

\* f"path:{pathway}"
AddPath(pw) ==
    PathwayId(CASE pw.pfx = "hsa" -> "path:hsa"
                [] pw.pfx = "map" -> "path:map"
                [] OTHER -> "path:" \o pw.pfx,
              pw.digits)

\* A line of a link/... response: parts is len(line.split('\t')), target
\* the second field.
LinkLine(parts, target) == [parts |-> parts, target |-> target]

\* A response of make_request_with_retry: None, or the lines of
\* response.text.strip() (none when the body is blank).
Text(lines) == [kind |-> "resp", lines |-> lines]

\* The answers to link/pathway/{disease_id} and link/pathway/{gene}.
PathwayLinkResponses ==
    {None, Text(<< >>),
     Text(<<LinkLine(2, PathwayId("path:hsa", WordCode1))>>),
     Text(<<LinkLine(2, PathwayId("path:hsa", WordCode1)),
            LinkLine(1, PathwayId("path:hsa", WordCode2)),
            LinkLine(2, PathwayId("path:hsa", WordCode1))>>)}

\* The answers to get/{disease_id}: no PATHWAY section, a header naming
\* hsa04930, a section that repeats hsa04910 and is closed before a code.
EntryResponses ==
    {None,
     Text(<<[indent |-> 0, kw |-> FALSE, words |-> <<WordCode1>>]>>),
     Text(<<[indent |-> 0, kw |-> TRUE, words |-> <<WordCode2>>]>>),
     Text(<<[indent |-> 0, kw |-> TRUE, words |-> <<WordCode1, WordCode2>>],
            [indent |-> 2, kw |-> FALSE, words |-> <<WordCode1>>],
            [indent |-> 0, kw |-> FALSE, words |-> << >>],
            [indent |-> 2, kw |-> FALSE, words |-> <<WordCode2>>]>>)}

\* The answers to link/hsa/{disease_id}, each gene line with the answer to
\* link/pathway/{gene}.
GeneResponses ==
    {None, Text(<< >>),
     Text(<<[parts |-> 2, answer |-> None]>>),
     Text(<<[parts |-> 2,
             answer |-> Text(<<LinkLine(2, PathwayId("path:hsa", WordCode2))>>)],
            [parts |-> 2,
             answer |-> Text(<<LinkLine(2, PathwayId("path:hsa", WordCode2))>>)]>>)}

\* What the HTTP helper answers during one get_disease_pathways call.
DiseaseResponses ==
    [link : PathwayLinkResponses, entry : EntryResponses, genes : GeneResponses]

\* `if response and response.text.strip():`
HasData(resp) == resp # None /\ resp.lines # << >>

\* The pathways a link response adds: the lines of two parts, path: removed.
LinkedPathways(resp) ==
    IF HasData(resp)
    THEN {RemovePath(resp.lines[i].target) :
             i \in {j \in 1..Len(resp.lines) : resp.lines[j].parts = 2}}
    ELSE {}

\* The loop over the lines of the disease entry (lines 69-91).
RECURSIVE ScanEntry(_, _, _)
ScanEntry(lines, open, acc) ==
    IF lines = << >> THEN acc
    ELSE LET ln == Head(lines)
             codes == Range(Search("get_disease_pathways", ln.words))
         IN IF StartsWithKeyword(ln)
            THEN ScanEntry(Tail(lines), TRUE, acc \cup codes)
            ELSE IF StartsWithIndent(ln) /\ open
            THEN ScanEntry(Tail(lines), TRUE, acc \cup codes)
            ELSE IF ~StartsWithIndent(ln) /\ open
            THEN ScanEntry(Tail(lines), FALSE, acc)
            ELSE ScanEntry(Tail(lines), open, acc)

EntryPathways(resp) ==
    IF HasData(resp) THEN ScanEntry(resp.lines, FALSE, {}) ELSE {}

\* The pathways of the genes of the disease.
GenePathways(resp) ==
    IF HasData(resp)
    THEN UNION {LinkedPathways(resp.lines[i].answer) :
                   i \in {j \in 1..Len(resp.lines) : resp.lines[j].parts = 2}}
    ELSE {}

\* get_disease_pathways: the set `pathways` when the function returns.
GetDiseasePathways(r) ==
    LinkedPathways(r.link) \cup EntryPathways(r.entry) \cup GenePathways(r.genes)

\* list(pathways): the elements of the set in some order.
Orderings(S) ==
    {q \in [1..Cardinality(S) -> S] : \A x \in S : \E i \in DOMAIN q : q[i] = x}

\* Every request made for the disease returned None.
NoData(r) == r.link = None /\ r.entry = None /\ r.genes = None

\* Link endpoint: the single line H<TAB>path:hsa04910; entry: a PATHWAY
\* section naming hsa04930; gene link: no data.
Scenario(r) ==
    /\ r.link = Text(<<LinkLine(2, PathwayId("path:hsa", WordCode1))>>)
    /\ r.entry = Text(<<[indent |-> 0, kw |-> TRUE, words |-> <<WordCode2>>]>>)
    /\ ~HasData(r.genes)

Raise == [kind |-> "raise", pathways |-> << >>]

Return(q) == [kind |-> "return", pathways |-> q]

\* What get_disease_pathways(disease_id) can do in process_diseases_chunk:
\* return list(pathways), or raise.
ItemOutcomes ==
    {Return(q) : q \in UNION {Orderings(GetDiseasePathways(r)) :
                                 r \in DiseaseResponses}} \cup {Raise}

\* Mutant of ChunkSize: the max(1, ...) is missing.
ChunkSizeNoFloor(len, n) == len \div n

\* chunk_size = max(1, len(diseases) // args.n_workers)
ChunkSize(len, n) == Max(1, len \div n)

\* Mutant of Chunks: an empty list is split into one empty chunk.
ChunksNeverEmpty(list, size) ==
    [k \in 1..Max(1, (Len(list) + size - 1) \div size) |->
        SubSeq(list, (k - 1) * size + 1, Min(k * size, Len(list)))]

\* [diseases[i:i + chunk_size] for i in range(0, len(diseases), chunk_size)]
\* and the same slicing with BATCH_SIZE in methods 1 and 3 of the finder.
Chunks(list, size) ==
    [k \in 1..((Len(list) + size - 1) \div size) |->
        SubSeq(list, (k - 1) * size + 1, Min(k * size, Len(list)))]

RECURSIVE Flatten(_)
Flatten(qs) == IF qs = << >> THEN << >> ELSE Head(qs) \o Flatten(Tail(qs))

\* The statements write_sql_file writes.
Begin == [stmt |-> "BEGIN TRANSACTION"]

DeleteAll == [stmt |-> "DELETE FROM DiseasePathways"]

Commit == [stmt |-> "COMMIT"]

Insert(disease_id, pathway) ==
    [stmt |-> "INSERT", disease_id |-> disease_id, pathway_id |-> pathway]

NoCounts ==
    [insert_count |-> 0, diseases_with_pathways |-> 0,
     diseases_without_pathways |-> 0]

\* Mutant of InsertStatements: the first pathway of a disease is not
\* written.
RECURSIVE InsertStatementsSkipFirst(_, _)
InsertStatementsSkipFirst(disease_id, pws) ==
    IF Len(pws) <= 1 THEN << >>
    ELSE Append(InsertStatementsSkipFirst(disease_id, SubSeq(pws, 1, Len(pws) - 1)),
                Insert(disease_id, AddPath(pws[Len(pws)])))

\* for pathway in pathways: one INSERT with the path: prefix added.
RECURSIVE InsertStatements(_, _)
InsertStatements(disease_id, pws) ==
    IF pws = << >> THEN << >>
    ELSE <<Insert(disease_id, AddPath(Head(pws)))>> \o
         InsertStatements(disease_id, Tail(pws))

\* A test that takes every entry as one with pathways.
HasPathwaysAlways(pws) == TRUE

\* `if pathways:`
HasPathways(pws) == pws # << >>

\* for disease_id, pathways in results: the statements written and the
\* counters after the loop, starting from the counters cnt.
RECURSIVE WriteResults(_, _, _)
WriteResults(results, file, cnt) ==
    IF results = << >> THEN [file |-> file, counts |-> cnt]
    ELSE LET disease_id == Head(results)[1]
             pws == Head(results)[2]
         IN IF HasPathways(pws)
            THEN WriteResults(Tail(results),
                    file \o InsertStatements(disease_id, pws),
                    [cnt EXCEPT !.diseases_with_pathways = @ + 1,
                                !.insert_count = @ + Len(pws)])
            ELSE WriteResults(Tail(results), file,
                    [cnt EXCEPT !.diseases_without_pathways = @ + 1])

\* write_sql_file(results, output_file): the file and the returned counters.
WriteSqlFile(results) ==
    LET body == WriteResults(results, <<Begin, DeleteAll>>, NoCounts)
    IN [file |-> Append(body.file, Commit), counts |-> body.counts]

IdleDisease ==
    /\ diseases = << >>
    /\ n_workers = 1
    /\ mpc = "done"
    /\ disease_chunks = << >>
    /\ cstate = << >>
    /\ cpos = << >>
    /\ cres = << >>
    /\ all_results = << >>
    /\ raisedIds = {}
    /\ noDataIds = {}
    /\ scenarioIds = {}
    /\ returnedPairs = {}
    /\ sql_file = << >>
    /\ counts = NoCounts

\* main after get_kegg_diseases() returned, or process_diseases_chunk
\* called directly with the list as its disease_ids.
InitDisease ==
    /\ pipeline \in {"main", "process_diseases_chunk"}
    /\ diseases \in DiseaseLists
    /\ all_results = << >>
    /\ raisedIds = {}
    /\ noDataIds = {}
    /\ scenarioIds = {}
    /\ returnedPairs = {}
    /\ sql_file = << >>
    /\ counts = NoCounts
    /\ IF pipeline = "main"
       THEN /\ n_workers \in 1..MaxWorkersArg
            /\ mpc = "fetched"
            /\ disease_chunks = << >>
            /\ cstate = << >>
            /\ cpos = << >>
            /\ cres = << >>
       ELSE /\ n_workers = 1
            /\ mpc = "pool"
            /\ disease_chunks = <<diseases>>
            /\ cstate = <<"running">>
            /\ cpos = <<1>>
            /\ cres = << <<>> >>

\* if not diseases: print("Failed to fetch diseases, exiting."); return
NoDiseases ==
    /\ pipeline = "main"
    /\ mpc = "fetched"
    /\ diseases = << >>
    /\ mpc' = "exit"
    /\ UNCHANGED <<pipeline, uncaught, diseases, n_workers, disease_chunks,
                   cstate, cpos, cres, all_results, raisedIds, noDataIds, scenarioIds,
                   returnedPairs,
                   sql_file, counts>>
    /\ UNCHANGED <<finVars, smiVars, comVars, fanOthers>>

\* chunk_size = ...; disease_chunks = [...]; the pool is created.  A
\* chunk_size of 0 makes range() raise ValueError.
Split ==
    /\ pipeline = "main"
    /\ mpc = "fetched"
    /\ diseases # << >>
    /\ LET size == ChunkSize(Len(diseases), n_workers)
       IN IF size = 0
          THEN /\ uncaught' = TRUE
               /\ mpc' = "exit"
               /\ UNCHANGED <<disease_chunks, cstate, cpos, cres>>
          ELSE /\ uncaught' = uncaught
               /\ mpc' = "pool"
               /\ disease_chunks' = Chunks(diseases, size)
               /\ cstate' = [c \in 1..Len(Chunks(diseases, size)) |-> "queued"]
               /\ cpos' = [c \in 1..Len(Chunks(diseases, size)) |-> 1]
               /\ cres' = [c \in 1..Len(Chunks(diseases, size)) |-> << >>]
    /\ UNCHANGED <<pipeline, diseases, n_workers, all_results, raisedIds, noDataIds, scenarioIds,
                   returnedPairs,
                   sql_file, counts>>
    /\ UNCHANGED <<finVars, smiVars, comVars, fanOthers>>

\* A free worker process of Pool(processes=n_workers) takes the next chunk.
StartChunk(c) ==
    /\ pipeline = "main"
    /\ mpc = "pool"
    /\ cstate[c] = "queued"
    /\ \A b \in 1..(c - 1) : cstate[b] # "queued"
    /\ Cardinality({b \in 1..Len(cstate) : cstate[b] = "running"}) < n_workers
    /\ cstate' = [cstate EXCEPT ![c] = "running"]
    /\ UNCHANGED <<pipeline, uncaught, diseases, n_workers, mpc,
                   disease_chunks, cpos, cres, all_results, raisedIds, noDataIds, scenarioIds,
                   returnedPairs,
                   sql_file, counts>>
    /\ UNCHANGED <<finVars, smiVars, comVars, fanOthers>>

\* Mutant of ItemResult: the except branch records nothing.
ItemResultDropsFailure(disease_id, o) ==
    IF o = Raise THEN << >> ELSE << <<disease_id, o.pathways>> >>

\* What one loop iteration appends to results: (disease_id, pathways), or
\* (disease_id, []) from the except branch.
ItemResult(disease_id, o) ==
    IF o = Raise THEN << <<disease_id, << >> >> >>
    ELSE << <<disease_id, o.pathways>> >>

\* One iteration of `for i, disease_id in enumerate(disease_ids)`:
\* get_disease_pathways answers from the responses it receives, or raises.
ProcessItem(c) ==
    /\ mpc = "pool"
    /\ cstate[c] = "running"
    /\ cpos[c] <= Len(disease_chunks[c])
    /\ LET disease_id == disease_chunks[c][cpos[c]]
       IN \/ \E r \in DiseaseResponses :
                \E q \in Orderings(GetDiseasePathways(r)) :
                   /\ cres' = [cres EXCEPT
                                  ![c] = @ \o ItemResult(disease_id, Return(q))]
                   /\ noDataIds' = IF NoData(r)
                                   THEN noDataIds \cup {disease_id}
                                   ELSE noDataIds
                   /\ scenarioIds' = IF Scenario(r)
                                     THEN scenarioIds \cup {disease_id}
                                     ELSE scenarioIds
                   /\ returnedPairs' = returnedPairs \cup
                         {<<disease_id, pw>> : pw \in GetDiseasePathways(r)}
                   /\ UNCHANGED raisedIds
          \/ /\ cres' = [cres EXCEPT ![c] = @ \o ItemResult(disease_id, Raise)]
             /\ raisedIds' = raisedIds \cup {disease_id}
             /\ UNCHANGED <<noDataIds, scenarioIds, returnedPairs>>
    /\ cpos' = [cpos EXCEPT ![c] = @ + 1]
    /\ UNCHANGED <<pipeline, uncaught, diseases, n_workers, mpc,
                   disease_chunks, cstate, all_results, sql_file, counts>>
    /\ UNCHANGED <<finVars, smiVars, comVars, fanOthers>>

\* return results
ChunkReturn(c) ==
    /\ mpc = "pool"
    /\ cstate[c] = "running"
    /\ cpos[c] > Len(disease_chunks[c])
    /\ cstate' = [cstate EXCEPT ![c] = "done"]
    /\ UNCHANGED <<pipeline, uncaught, diseases, n_workers, mpc,
                   disease_chunks, cpos, cres, all_results, raisedIds, noDataIds, scenarioIds,
                   returnedPairs,
                   sql_file, counts>>
    /\ UNCHANGED <<finVars, smiVars, comVars, fanOthers>>

\* pool.starmap returned the chunk results in chunk order; main flattens
\* them (a direct call just returns its results).
Flattened ==
    /\ mpc = "pool"
    /\ \A c \in 1..Len(cstate) : cstate[c] = "done"
    /\ all_results' = Flatten(cres)
    /\ mpc' = "done"
    /\ UNCHANGED <<pipeline, uncaught, diseases, n_workers, disease_chunks,
                   cstate, cpos, cres, raisedIds, noDataIds, scenarioIds,
                   returnedPairs,
                   sql_file, counts>>
    /\ UNCHANGED <<finVars, smiVars, comVars, fanOthers>>

\* insert_count, ... = write_sql_file(all_results, output_file)
WriteSql ==
    /\ pipeline = "main"
    /\ mpc = "done"
    /\ sql_file' = WriteSqlFile(all_results).file
    /\ counts' = WriteSqlFile(all_results).counts
    /\ mpc' = "written"
    /\ UNCHANGED <<pipeline, uncaught, diseases, n_workers, disease_chunks,
                   cstate, cpos, cres, all_results, raisedIds, noDataIds,
                   scenarioIds, returnedPairs>>
    /\ UNCHANGED <<finVars, smiVars, comVars, fanOthers>>

NextDisease ==
    \/ NoDiseases
    \/ Split
    \/ WriteSql
    \/ \E c \in 1..Len(cstate) : StartChunk(c)
    \/ \E c \in 1..Len(cstate) : ProcessItem(c)
    \/ \E c \in 1..Len(cstate) : ChunkReturn(c)
    \/ Flattened

-----------------------------------------------------------------------------
(***************************************************************************)
(* The relationship tables of the SQLite database.  A table is the bag of  *)
(* its (a, b) rows: row |-> number of copies.  DrugPathways                *)
(* (getDrugPathways.py, save_results) and DiseaseCompounds                 *)
(* (getSMILESforDrugsAndCompounds.py, ensure_tables) are created with      *)
(* UNIQUE(a, b) and written with INSERT OR IGNORE.                         *)
(***************************************************************************)

EmptyTable == [row \in {} |-> 0]

\* Mutant of InsertOrIgnore: a plain INSERT into a table without the
\* UNIQUE constraint.
InsertPlain(tbl, row) ==
    [r \in DOMAIN tbl \cup {row} |->
        IF r \in DOMAIN tbl
        THEN (IF r = row THEN tbl[r] + 1 ELSE tbl[r])
        ELSE 1]

\* INSERT OR IGNORE INTO t(a, b) VALUES (?, ?) under UNIQUE(a, b).
InsertOrIgnore(tbl, row) ==
    [r \in DOMAIN tbl \cup {row} |-> IF r \in DOMAIN tbl THEN tbl[r] ELSE 1]

\* executemany(INSERT OR IGNORE ..., rows)
RECURSIVE ExecuteMany(_, _)
ExecuteMany(tbl, rows) ==
    IF rows = << >> THEN tbl
    ELSE ExecuteMany(InsertOrIgnore(tbl, Head(rows)), Tail(rows))

\* SELECT COUNT(*) FROM t
RECURSIVE RowCount(_)
RowCount(tbl) ==
    IF DOMAIN tbl = {} THEN 0
    ELSE LET r == CHOOSE x \in DOMAIN tbl : TRUE
         IN tbl[r] + RowCount([x \in DOMAIN tbl \ {r} |-> tbl[x]])

-----------------------------------------------------------------------------
(***************************************************************************)
(* getDrugPathways.py: run_parallel_methods runs methods 1..5 in turn.     *)
(* Each method submits its tasks to a ThreadPoolExecutor and merges the    *)
(* result of every future that as_completed hands out.                     *)
(***************************************************************************)

\* The Drugs and Pathways columns fetch_base_data can have loaded.
LoadedDrugs == {<< >>, <<"D1">>, <<"D1", "D2">>}

LoadedPathways == {<< >>, <<"P1">>, <<"P1", "P2">>}

\* BATCH_SIZE (100 in the script), scaled down.
BATCH_SIZE == 1

\* MAX_WORKERS (min(16, cpu_count() * 2) in the script), scaled down.
MAX_WORKERS == 2

AllDrugs == <<"D1", "D2", "D3">>

\* What KEGG entries can name: more than the database has loaded.
KeggDrugs == {"D1", "D2", "D9"}

KeggPathways == {"P1", "P2", "P9"}

\* The DiseaseDrugs tables explored.
DiseaseDrugsTables == {{}, {<<"H1", "D1">>}, {<<"H1", "D1">>, <<"H2", "D9">>}}

Methods == 1..5

\* batch_size of save_results (1000 in the script), scaled down.
SaveBatchSize == 2

\* The DrugPathways tables an earlier run can have left.
DrugPathwaysTables == {EmptyTable, [row \in {<<"D1", "P1">>} |-> 1]}

\* The arguments of the tasks a method submits: drug batches, drugs,
\* pathway batches, pathways, the diseases of DiseaseDrugs.
SetToSeq(S) ==
    CHOOSE q \in [1..Cardinality(S) -> S] : \A x \in S : \E i \in DOMAIN q : q[i] = x

TaskArgs(m) ==
    CASE m = 1 -> Chunks(drug_ids, BATCH_SIZE)
      [] m = 2 -> [i \in 1..Len(drug_ids) |-> <<drug_ids[i]>>]
      [] m = 3 -> Chunks(pathway_ids, BATCH_SIZE)
      [] m = 4 -> [i \in 1..Len(pathway_ids) |-> <<pathway_ids[i]>>]
      [] OTHER ->
           LET ds == {pr[1] : pr \in disease_drug_pairs}
           IN [i \in 1..Cardinality(ds) |-> <<SetToSeq(ds)[i]>>]

\* What the KEGG answers can make a task find, before the task filters it
\* against the loaded lists: (drug, pathway) pairs for methods 1-4, the
\* pathways of the disease entry for method 5.
RawResults(m, arg) ==
    CASE m \in {1, 2} -> SUBSET (Range(arg) \X KeggPathways)
      [] m \in {3, 4} -> SUBSET (KeggDrugs \X Range(arg))
      [] OTHER -> SUBSET KeggPathways

\* The value the task returns: methods 1-2 keep the pathways found in
\* self.pathway_ids, methods 3-4 the drugs found in self.drug_ids, method
\* 5's get_disease_pathways returns what it extracted.
TaskReturn(m, raw) ==
    CASE m \in {1, 2} -> {pr \in raw : pr[2] \in Range(pathway_ids)}
      [] m \in {3, 4} -> {pr \in raw : pr[1] \in Range(drug_ids)}
      [] OTHER -> raw

\* Method 5: `Connect drugs to pathways via diseases`.
DiseasePairs(dp) ==
    UNION {{<<x[2], pw>> : pw \in dp[x[1]] \cap Range(pathway_ids)} :
              x \in {y \in disease_drug_pairs : y[1] \in DOMAIN dp}}

NoDict == [x \in {} |-> {}]

IdleFinder ==
    /\ drug_ids = << >>
    /\ pathway_ids = << >>
    /\ disease_drug_pairs = {}
    /\ fpc = "done"
    /\ method = 0
    /\ tasks = << >>
    /\ tstate = << >>
    /\ tresult = << >>
    /\ consumed = << >>
    /\ disease_pathways = NoDict
    /\ drug_pathway_pairs = {}
    /\ caught = FALSE
    /\ saves = 0
    /\ table = EmptyTable
    /\ produced = {}
    /\ started = {}

\* ParallelDrugPathwayFinder.__init__ and fetch_base_data.
InitFinder ==
    /\ pipeline = "run_parallel_methods"
    /\ drug_ids \in LoadedDrugs
    /\ pathway_ids \in LoadedPathways
    /\ disease_drug_pairs \in DiseaseDrugsTables
    /\ fpc = "next"
    /\ method = 0
    /\ tasks = << >>
    /\ tstate = << >>
    /\ tresult = << >>
    /\ consumed = << >>
    /\ disease_pathways = NoDict
    /\ drug_pathway_pairs = {}
    /\ caught = FALSE
    /\ saves = 0
    /\ table \in DrugPathwaysTables
    /\ produced = {}
    /\ started = {}

\* The next method is called: it builds its batches and submits one task
\* per batch or item (executor.submit in a comprehension).
Submit ==
    /\ pipeline = "run_parallel_methods"
    /\ fpc = "next"
    /\ method < 5
    /\ method' = method + 1
    /\ started' = started \cup {method + 1}
    /\ tasks' = TaskArgs(method + 1)
    /\ tstate' = [i \in 1..Len(TaskArgs(method + 1)) |-> "pending"]
    /\ tresult' = [i \in 1..Len(TaskArgs(method + 1)) |-> {}]
    /\ consumed' = << >>
    /\ disease_pathways' = NoDict
    /\ fpc' = "pool"
    /\ UNCHANGED <<drug_ids, pathway_ids, disease_drug_pairs,
                   drug_pathway_pairs, caught, saves, table, produced>>
    /\ UNCHANGED <<pipeline, uncaught, disVars, smiVars, comVars, fanOthers>>

\* A free worker thread takes the oldest pending task.
StartTask(i) ==
    /\ fpc \in {"pool", "drain"}
    /\ tstate[i] = "pending"
    /\ \A j \in 1..(i - 1) : tstate[j] # "pending"
    /\ Cardinality({j \in 1..Len(tstate) : tstate[j] = "running"}) < MAX_WORKERS
    /\ tstate' = [tstate EXCEPT ![i] = "running"]
    /\ UNCHANGED <<drug_ids, pathway_ids, disease_drug_pairs, fpc, method,
                   tasks, tresult, consumed, disease_pathways,
                   drug_pathway_pairs, caught, saves, table, produced, started>>
    /\ UNCHANGED <<pipeline, uncaught, disVars, smiVars, comVars, fanOthers>>

\* The pairs a successful task of method m contributes once merged.
Contribution(m, arg, value) ==
    IF m = 5
    THEN DiseasePairs([d \in Range(arg) |-> value])
    ELSE value

\* A running task returns its value.
TaskReturns(i) ==
    /\ fpc \in {"pool", "drain"}
    /\ tstate[i] = "running"
    /\ \E raw \in RawResults(method, tasks[i]) :
          /\ tresult' = [tresult EXCEPT ![i] = TaskReturn(method, raw)]
          /\ produced' = produced \cup
                Contribution(method, tasks[i], TaskReturn(method, raw))
    /\ tstate' = [tstate EXCEPT ![i] = "done"]
    /\ UNCHANGED <<drug_ids, pathway_ids, disease_drug_pairs, fpc, method,
                   tasks, consumed, disease_pathways, drug_pathway_pairs,
                   caught, saves, table, started>>
    /\ UNCHANGED <<pipeline, uncaught, disVars, smiVars, comVars, fanOthers>>

\* A running task raises: the exception is stored in its future.
TaskRaises(i) ==
    /\ fpc \in {"pool", "drain"}
    /\ tstate[i] = "running"
    /\ tstate' = [tstate EXCEPT ![i] = "failed"]
    /\ UNCHANGED <<drug_ids, pathway_ids, disease_drug_pairs, fpc, method,
                   tasks, tresult, consumed, disease_pathways,
                   drug_pathway_pairs, caught, saves, table, produced, started>>
    /\ UNCHANGED <<pipeline, uncaught, disVars, smiVars, comVars, fanOthers>>

\* Mutant of ResultRaises: the loop swallows the exception of a failed task.
ResultNeverRaises(i) == FALSE

\* future.result() re-raises the exception of a failed task.
ResultRaises(i) == tstate[i] = "failed"

\* A merge that keeps only the pairs of the future read last.
MergeOverwrites(acc, pairs) == pairs

\* self.drug_pathway_pairs.update(pairs)
Merge(acc, pairs) == acc \cup pairs

\* One iteration of `for future in as_completed(futures)`:
\* pairs = future.result(), then the merge under self.results_lock (method
\* 5 stores the value in disease_pathways).  The exception of a failed task
\* leaves the loop and the method; the executor's __exit__ then waits for
\* the tasks that are left.
Consume(i) ==
    /\ fpc = "pool"
    /\ i \notin Range(consumed)
    /\ tstate[i] \in {"done", "failed"}
    /\ consumed' = Append(consumed, i)
    /\ IF ResultRaises(i)
       THEN /\ fpc' = "drain"
            /\ UNCHANGED <<drug_pathway_pairs, disease_pathways>>
       ELSE /\ fpc' = fpc
            /\ IF method = 5
               THEN /\ disease_pathways' =
                          [d \in DOMAIN disease_pathways \cup Range(tasks[i]) |->
                              IF d \in Range(tasks[i]) THEN tresult[i]
                              ELSE disease_pathways[d]]
                    /\ UNCHANGED drug_pathway_pairs
               ELSE /\ drug_pathway_pairs' =
                          Merge(drug_pathway_pairs, tresult[i])
                    /\ UNCHANGED disease_pathways
    /\ UNCHANGED <<drug_ids, pathway_ids, disease_drug_pairs, method, tasks,
                   tstate, tresult, caught, saves, table, produced, started>>
    /\ UNCHANGED <<pipeline, uncaught, disVars, smiVars, comVars, fanOthers>>

\* A save that is part of the try block: it runs on the normal path only.
SavesOnSuccessOnly(path) == IF path = "except" THEN "done" ELSE "save"

\* finally: self.save_results() follows the try block and the except
\* clause alike.
Finally(path) == "save"

\* Every future was handed out: the method returns (method 5 first merges
\* the pairs it derives from disease_pathways).
MethodReturns ==
    /\ fpc = "pool"
    /\ Range(consumed) = 1..Len(tasks)
    /\ drug_pathway_pairs' =
          IF method = 5
          THEN Merge(drug_pathway_pairs, DiseasePairs(disease_pathways))
          ELSE drug_pathway_pairs
    /\ fpc' = IF method = 5 THEN Finally("try") ELSE "next"
    /\ UNCHANGED <<drug_ids, pathway_ids, disease_drug_pairs, method, tasks,
                   tstate, tresult, consumed, disease_pathways, caught,
                   saves, table, produced, started>>
    /\ UNCHANGED <<pipeline, uncaught, disVars, smiVars, comVars, fanOthers>>

\* The executor has shut down after the exception: every submitted task
\* has finished.  `except Exception as e` of run_parallel_methods runs.
ExceptClause ==
    /\ fpc = "drain"
    /\ \A i \in 1..Len(tstate) : tstate[i] \in {"done", "failed"}
    /\ caught' = TRUE
    /\ fpc' = Finally("except")
    /\ UNCHANGED <<drug_ids, pathway_ids, disease_drug_pairs, method, tasks,
                   tstate, tresult, consumed, disease_pathways,
                   drug_pathway_pairs, saves, table, produced, started>>
    /\ UNCHANGED <<pipeline, uncaught, disVars, smiVars, comVars, fanOthers>>

\* for i in range(0, len(unique_pairs), batch_size): executemany; commit
RECURSIVE SaveBatches(_, _)
SaveBatches(tbl, batches) ==
    IF batches = << >> THEN tbl
    ELSE SaveBatches(ExecuteMany(tbl, Head(batches)), Tail(batches))

\* save_results as a function of the table: unique_pairs =
\* list(self.drug_pathway_pairs), inserted batch by batch.
SaveResultsRows(tbl, pairs) ==
    SaveBatches(tbl, Chunks(SetToSeq(pairs), SaveBatchSize))

\* finally: self.save_results()
SaveResults ==
    /\ fpc = "save"
    /\ table' = SaveResultsRows(table, drug_pathway_pairs)
    /\ saves' = saves + 1
    /\ fpc' = "done"
    /\ UNCHANGED <<drug_ids, pathway_ids, disease_drug_pairs, method, tasks,
                   tstate, tresult, consumed, disease_pathways,
                   drug_pathway_pairs, caught, produced, started>>
    /\ UNCHANGED <<pipeline, uncaught, disVars, smiVars, comVars, fanOthers>>

NextFinder ==
    \/ Submit
    \/ \E i \in 1..Len(tstate) : StartTask(i)
    \/ \E i \in 1..Len(tstate) : TaskReturns(i)
    \/ \E i \in 1..Len(tstate) : TaskRaises(i)
    \/ \E i \in 1..Len(tstate) : Consume(i)
    \/ MethodReturns
    \/ ExceptClause
    \/ SaveResults

-----------------------------------------------------------------------------
(***************************************************************************)
(* getSMILESforDrugsAndCompounds.py: one task per item (process_drug or    *)
(* process_compound) in a ThreadPoolExecutor; the main block walks         *)
(* as_completed(futures) without reading any future.                       *)
(***************************************************************************)

\* Longest slice of items.
MaxItems == 2

Smiles == {"C", "CC"}

\* The slices explored: IDs of the KEGG list, or one ID listed twice.
ItemLists == {SubSeq(AllDrugs, 1, n) : n \in 0..MaxItems} \cup {<<"D1", "D1">>}

\* The structure tables (bags of (id, smiles) rows) and the mol_files
\* caches (id -> text) an earlier run can have left.
StructureTables == {EmptyTable, [row \in {<<"D1", "C">>} |-> 1]}

MolCaches == {NoDict, [d \in {"D1"} |-> "molA"]}

NoText == ""

NoCall == [hit |-> FALSE, requests |-> 0, path |-> FALSE]

\* What one process_drug / process_compound call can do after
\* get_mol_file: insert the SMILES it derived, derive none, have its
\* insert fail, or raise.
ItemEffects ==
    [kind : {"insert", "insert_failed"}, smiles : Smiles] \cup
    [kind : {"nothing", "raise"}, smiles : {""}]

\* What the requests and the write of get_mol_file can do: the text of
\* the KEGG answer (NoText when request_with_retry returned None), whether
\* extract_pubchem_id found a CID, the text of the PubChem answer, and
\* whether open(file_path, "w") succeeded.
FetchOutcomes ==
    [kegg : {NoText, "molA"}, cid : BOOLEAN, pubchem : {NoText, "molB"},
     write_ok : BOOLEAN]

IdleSmiles ==
    /\ items = << >>
    /\ workers = 0
    /\ spc = "done"
    /\ sstate = << >>
    /\ structures = EmptyTable
    /\ sraised = {}
    /\ mol_files = NoDict
    /\ molcall = << >>
    /\ conns = {}
    /\ commits = << >>

\* items = get_kegg_drugs()[args.start:args.end]; the table and the cache
\* directory may hold entries of an earlier run.
InitSmiles ==
    /\ pipeline = "smiles"
    /\ items \in ItemLists
    /\ workers \in 1..MaxWorkersArg
    /\ spc = "submit"
    /\ sstate = << >>
    /\ structures \in StructureTables
    /\ sraised = {}
    /\ mol_files \in MolCaches
    /\ molcall = << >>
    /\ conns = {}
    /\ commits = << >>

\* futures = [pool.submit(worker_fn, it) for it in items]
SubmitItems ==
    /\ pipeline = "smiles"
    /\ spc = "submit"
    /\ sstate' = [i \in 1..Len(items) |-> "pending"]
    /\ molcall' = [i \in 1..Len(items) |-> NoCall]
    /\ spc' = "pool"
    /\ UNCHANGED <<items, workers, structures, sraised, mol_files, conns,
                   commits>>
    /\ UNCHANGED <<pipeline, uncaught, disVars, finVars, comVars, fanOthers>>

\* The states of a task that occupies a worker thread.
InFlight == {"running", "fetching", "molfile"}

\* A free worker thread takes the oldest pending item and enters
\* process_drug: conn = get_db_connection().
StartItem(i) ==
    /\ spc = "pool"
    /\ sstate[i] = "pending"
    /\ \A j \in 1..(i - 1) : sstate[j] # "pending"
    /\ Cardinality({j \in 1..Len(sstate) : sstate[j] \in InFlight}) < workers
    /\ sstate' = [sstate EXCEPT ![i] = "running"]
    /\ conns' = conns \cup {i}
    /\ UNCHANGED <<items, workers, spc, structures, sraised, mol_files,
                   molcall, commits>>
    /\ UNCHANGED <<pipeline, uncaught, disVars, finVars, comVars, fanOthers>>

\* Mutant of Cached: the presence check is missing.
CachedNever(id) == FALSE

\* os.path.exists(file_path)
Cached(id) == id \in DOMAIN mol_files

\* get_mol_file, first part: if the file exists its path is returned.
MolCheck(i) ==
    /\ spc = "pool"
    /\ sstate[i] = "running"
    /\ IF Cached(items[i])
       THEN /\ sstate' = [sstate EXCEPT ![i] = "molfile"]
            /\ molcall' = [molcall EXCEPT ![i] =
                              [hit |-> TRUE, requests |-> 0, path |-> TRUE]]
       ELSE /\ sstate' = [sstate EXCEPT ![i] = "fetching"]
            /\ UNCHANGED molcall
    /\ UNCHANGED <<items, workers, spc, structures, sraised, mol_files, conns,
                   commits>>
    /\ UNCHANGED <<pipeline, uncaught, disVars, finVars, comVars, fanOthers>>

\* text after `Try KEGG` and `Fallback to PubChem`.
FetchedText(o) ==
    IF o.kegg # NoText THEN o.kegg
    ELSE IF o.cid THEN o.pubchem ELSE NoText

\* The number of request_with_retry calls made for it.
FetchRequests(o) ==
    IF o.kegg # NoText THEN 1 ELSE IF o.cid THEN 3 ELSE 2

\* Mutant of WritesFile: the file is written whatever the text.
WritesFileAlways(text) == TRUE

\* `if not text: return None` guards the write.
WritesFile(text) == text # NoText

\* get_mol_file, second part: the download, and the write of the file when
\* a text was obtained.  A failing open() leaves no file and its exception
\* leaves process_drug through `finally: conn.close()`.
MolFetch(i) ==
    /\ spc = "pool"
    /\ sstate[i] = "fetching"
    /\ \E o \in FetchOutcomes :
          LET text == FetchedText(o)
          IN /\ molcall' = [molcall EXCEPT ![i] =
                               [hit |-> FALSE, requests |-> FetchRequests(o),
                                path |-> WritesFile(text) /\ o.write_ok]]
             /\ IF WritesFile(text) /\ ~o.write_ok
                THEN /\ sstate' = [sstate EXCEPT ![i] = "failed"]
                     /\ sraised' = sraised \cup {items[i]}
                     /\ conns' = conns \ {i}
                     /\ UNCHANGED mol_files
                ELSE /\ sstate' = [sstate EXCEPT ![i] = "molfile"]
                     /\ mol_files' =
                           IF WritesFile(text)
                           THEN [d \in DOMAIN mol_files \cup {items[i]} |->
                                    IF d = items[i] THEN text ELSE mol_files[d]]
                           ELSE mol_files
                     /\ UNCHANGED <<sraised, conns>>
    /\ UNCHANGED <<items, workers, spc, structures, commits>>
    /\ UNCHANGED <<pipeline, uncaught, disVars, finVars, comVars, fanOthers>>

\* Mutant of Rollback: the rows written before the error stay.
RollbackKeepsRows(before, partial) == partial

\* conn.rollback(): the table is as it was when the transaction began.
Rollback(before, partial) == before

\* Mutant of InsertOrReplace: a row that exists is kept (INSERT OR IGNORE).
InsertKeepsOld(tbl, id, sm) ==
    IF \E r \in DOMAIN tbl : r[1] = id THEN tbl
    ELSE [r \in DOMAIN tbl \cup {<<id, sm>>} |->
             IF r \in DOMAIN tbl THEN tbl[r] ELSE 1]

\* INSERT OR REPLACE INTO ...Structures(id, smiles) with id PRIMARY KEY:
\* the row of that id, if any, is deleted and the new row inserted.
InsertOrReplace(tbl, id, sm) ==
    [r \in {x \in DOMAIN tbl : x[1] # id} \cup {<<id, sm>>} |->
        IF r = <<id, sm>> THEN 1 ELSE tbl[r]]

\* Mutant of ClosesOn: the connection is closed on normal return only.
ClosesOnReturnOnly(kind) == kind # "raise"

\* finally: conn.close() runs on every exit path.
ClosesOn(kind) == TRUE

\* process_drug / process_compound after get_mol_file: the SMILES is
\* derived and inserted (insert_drug_structures commits, or rolls back
\* and returns False), none is found, or an exception leaves the function
\* (it stays in the future, which nobody reads); finally: conn.close().
RunItem(i) ==
    /\ spc = "pool"
    /\ sstate[i] = "molfile"
    /\ \E e \in ItemEffects :
          /\ structures' =
                CASE e.kind = "insert" ->
                        InsertOrReplace(structures, items[i], e.smiles)
                  [] e.kind = "insert_failed" ->
                        Rollback(structures,
                                 InsertOrReplace(structures, items[i], e.smiles))
                  [] OTHER -> structures
          /\ commits' = IF e.kind = "insert"
                         THEN Append(commits, <<items[i], e.smiles>>)
                         ELSE commits
          /\ sstate' = [sstate EXCEPT
                           ![i] = IF e.kind = "raise" THEN "failed" ELSE "done"]
          /\ sraised' = IF e.kind = "raise" THEN sraised \cup {items[i]}
                        ELSE sraised
          /\ conns' = IF ClosesOn(e.kind) THEN conns \ {i} ELSE conns
    /\ UNCHANGED <<items, workers, spc, mol_files, molcall>>
    /\ UNCHANGED <<pipeline, uncaught, disVars, finVars, comVars, fanOthers>>

\* `for _ in as_completed(futures): pass` ends and the pool shuts down.
PoolDone ==
    /\ pipeline = "smiles"
    /\ spc = "pool"
    /\ \A i \in 1..Len(sstate) : sstate[i] \in {"done", "failed"}
    /\ spc' = "done"
    /\ UNCHANGED <<items, workers, sstate, structures, sraised, mol_files,
                   molcall, conns, commits>>
    /\ UNCHANGED <<pipeline, uncaught, disVars, finVars, comVars, fanOthers>>

NextSmiles ==
    \/ SubmitItems
    \/ \E i \in 1..Len(sstate) : StartItem(i)
    \/ \E i \in 1..Len(sstate) : MolCheck(i)
    \/ \E i \in 1..Len(sstate) : MolFetch(i)
    \/ \E i \in 1..Len(sstate) : RunItem(i)
    \/ PoolDone

-----------------------------------------------------------------------------
(***************************************************************************)
(* getSMILESforDrugsAndCompounds.py --entity disease: get_disease_compounds *)
(* joins the DiseasePathways rows with the lines of link/compound/pathway  *)
(* and saves the associations chunk by chunk with save_chunk.              *)
(***************************************************************************)

\* Longest link/compound/pathway response, in lines.
MaxLinkLines == 3

\* chunk_size (50000 in the script), scaled down.
chunk_size == 2

\* Pathway IDs: the text before the number, and the number.
HsaPathway(n) == [pre |-> "path:hsa", num |-> n]

MapPathway(n) == [pre |-> "path:map", num |-> n]

\* Compound IDs: with or without the cpd: prefix.
Compound(prefixed, id) == [cpd |-> prefixed, id |-> id]

\* The lines of the response: parts is len(ln.split('\t')).
LinkLines ==
    {[parts |-> 1, pathway |-> MapPathway(1), compound |-> Compound(TRUE, "C1")],
     [parts |-> 2, pathway |-> MapPathway(1), compound |-> Compound(TRUE, "C1")],
     [parts |-> 2, pathway |-> MapPathway(2), compound |-> Compound(TRUE, "C1")],
     [parts |-> 2, pathway |-> MapPathway(1), compound |-> Compound(FALSE, "C2")],
     [parts |-> 2, pathway |-> HsaPathway(1), compound |-> Compound(TRUE, "C1")]}

\* The DiseasePathways tables explored.
DiseasePathwaysTables ==
    {{},
     {<<"H1", HsaPathway(1)>>},
     {<<"H1", HsaPathway(1)>>, <<"H1", HsaPathway(2)>>},
     {<<"H1", HsaPathway(1)>>, <<"H2", HsaPathway(1)>>}}

\* The DiseaseCompounds tables an earlier run can have left.
DiseaseCompoundsTables ==
    {EmptyTable, [row \in {<<"H1", Compound(FALSE, "C1")>>} |-> 1]}

RECURSIVE SeqsUpTo(_, _)
SeqsUpTo(S, n) ==
    IF n = 0 THEN {<< >>}
    ELSE SeqsUpTo(S, n - 1) \cup
         {Append(q, x) : q \in {r \in SeqsUpTo(S, n - 1) : Len(r) = n - 1},
                         x \in S}

\* disease_pathways: the dict disease_id -> set of pathway_ids, and the
\* order in which its items are iterated.
DiseasePathwaysDict ==
    [d \in {row[1] : row \in dp_table} |->
        {row[2] : row \in {r \in dp_table : r[1] = d}}]

DiseaseItems == SetToSeq(DOMAIN DiseasePathwaysDict)

\* The compound ID as it stands in the line.
StripCpdKeeps(c) == c

\* if compound_id.startswith('cpd:'): compound_id = compound_id[4:]
StripCpd(c) == IF c.cpd THEN Compound(FALSE, c.id) ELSE c

\* A test that lets every pathway of the response through.
IsPathwayAny(pw) == TRUE

\* pathway_id.startswith('path:map')
IsMapPathway(pw) == pw.pre = "path:map"

\* f"path:hsa{pathway_id[8:]}"
ToHsa(pw) == HsaPathway(pw.num)

\* The line is split in two parts and names a path:map pathway.
Joins(ln) == ln.parts = 2 /\ IsMapPathway(ln.pathway)

IdleCompounds ==
    /\ dp_table = {}
    /\ cp = None
    /\ gpc = "done"
    /\ lpos = 0
    /\ dpos = 0
    /\ current_chunk = << >>
    /\ chunk_num = 0
    /\ total_processed = 0
    /\ flushing = FALSE
    /\ dctable = EmptyTable
    /\ sconn = FALSE
    /\ handed = << >>
    /\ generated = << >>

\* get_disease_compounds has read DiseasePathways and received cp.
InitCompounds ==
    /\ pipeline = "get_disease_compounds"
    /\ dp_table \in DiseasePathwaysTables
    /\ cp \in {None} \cup
              [kind : {"resp"}, lines : SeqsUpTo(LinkLines, MaxLinkLines)]
    /\ gpc = "fetched"
    /\ lpos = 0
    /\ dpos = 0
    /\ current_chunk = << >>
    /\ chunk_num = 0
    /\ total_processed = 0
    /\ flushing = FALSE
    /\ dctable \in DiseaseCompoundsTables
    /\ sconn = FALSE
    /\ handed = << >>
    /\ generated = << >>

\* if not cp: return []
NoLinks ==
    /\ pipeline = "get_disease_compounds"
    /\ gpc = "fetched"
    /\ cp = None
    /\ gpc' = "done"
    /\ UNCHANGED <<dp_table, cp, lpos, dpos, current_chunk, chunk_num,
                   total_processed, flushing, dctable, sconn, handed,
                   generated>>
    /\ UNCHANGED <<pipeline, uncaught, disVars, finVars, smiVars, fanOthers>>

\* chunk_size = 50000; current_chunk = []; ...; the loop over the lines
\* starts.
StartLines ==
    /\ pipeline = "get_disease_compounds"
    /\ gpc = "fetched"
    /\ cp # None
    /\ gpc' = "lines"
    /\ lpos' = 1
    /\ dpos' = 1
    /\ UNCHANGED <<dp_table, cp, current_chunk, chunk_num, total_processed,
                   flushing, dctable, sconn, handed, generated>>
    /\ UNCHANGED <<pipeline, uncaught, disVars, finVars, smiVars, fanOthers>>

\* A line that is not split in two parts or names no path:map pathway, or
\* one met with an empty disease_pathways, contributes nothing.
SkipLine ==
    /\ gpc = "lines"
    /\ lpos <= Len(cp.lines)
    /\ ~Joins(cp.lines[lpos]) \/ DiseaseItems = << >>
    /\ lpos' = lpos + 1
    /\ dpos' = 1
    /\ UNCHANGED <<dp_table, cp, gpc, current_chunk, chunk_num,
                   total_processed, flushing, dctable, sconn, handed,
                   generated>>
    /\ UNCHANGED <<pipeline, uncaught, disVars, finVars, smiVars, fanOthers>>

\* A test that lets the chunk grow one entry past chunk_size.
ChunkFullLate(chunk) == Len(chunk) > chunk_size

\* if len(current_chunk) >= chunk_size:
ChunkFull(chunk) == Len(chunk) >= chunk_size

\* One iteration of `for disease_id, pathways in disease_pathways.items()`:
\* the association is appended when the disease has the hsa pathway, and
\* a chunk that has reached chunk_size is handed to save_chunk.
JoinStep ==
    /\ gpc = "lines"
    /\ lpos <= Len(cp.lines)
    /\ Joins(cp.lines[lpos])
    /\ dpos <= Len(DiseaseItems)
    /\ LET ln == cp.lines[lpos]
           disease_id == DiseaseItems[dpos]
           hit == ToHsa(ln.pathway) \in DiseasePathwaysDict[disease_id]
           chunk == IF hit
                    THEN Append(current_chunk,
                                <<disease_id, StripCpd(ln.compound)>>)
                    ELSE current_chunk
       IN /\ current_chunk' = chunk
          /\ generated' = IF hit
                          THEN Append(generated,
                                      <<disease_id, StripCpd(ln.compound)>>)
                          ELSE generated
          /\ IF hit /\ ChunkFull(chunk)
             THEN /\ chunk_num' = chunk_num + 1
                  /\ gpc' = "save_chunk"
             ELSE /\ chunk_num' = chunk_num
                  /\ gpc' = gpc
    /\ IF dpos < Len(DiseaseItems)
       THEN /\ dpos' = dpos + 1
            /\ lpos' = lpos
       ELSE /\ dpos' = 1
            /\ lpos' = lpos + 1
    /\ UNCHANGED <<dp_table, cp, total_processed, flushing, dctable, sconn,
                   handed>>
    /\ UNCHANGED <<pipeline, uncaught, disVars, finVars, smiVars, fanOthers>>

\* if current_chunk: chunk_num += 1; save_chunk(current_chunk, chunk_num)
\* after the loop; with nothing left the function returns [].
Flush ==
    /\ gpc = "lines"
    /\ lpos > Len(cp.lines)
    /\ IF current_chunk # << >>
       THEN /\ chunk_num' = chunk_num + 1
            /\ flushing' = TRUE
            /\ gpc' = "save_chunk"
       ELSE /\ gpc' = "done"
            /\ UNCHANGED <<chunk_num, flushing>>
    /\ UNCHANGED <<dp_table, cp, lpos, dpos, current_chunk, total_processed,
                   dctable, sconn, handed, generated>>
    /\ UNCHANGED <<pipeline, uncaught, disVars, finVars, smiVars, fanOthers>>

\* What executemany + commit can do: succeed, or raise after `done` rows.
SaveOutcomes(chunk) ==
    {[ok |-> TRUE, done |-> Len(chunk)]} \cup
    [ok : {FALSE}, done : 0..Len(chunk)]

\* save_chunk as a function of the table.
SaveChunkRows(tbl, chunk, o) ==
    IF o.ok THEN ExecuteMany(tbl, chunk)
    ELSE Rollback(tbl, ExecuteMany(tbl, SubSeq(chunk, 1, o.done)))

\* save_chunk: conn = get_db_connection(); try: executemany; commit
\* except: rollback.
SaveChunkBody ==
    /\ gpc = "save_chunk"
    /\ ~sconn
    /\ sconn' = TRUE
    /\ \E o \in SaveOutcomes(current_chunk) :
          /\ dctable' = SaveChunkRows(dctable, current_chunk, o)
          /\ handed' = Append(handed, [chunk |-> current_chunk, ok |-> o.ok,
                                       num |-> chunk_num])
    /\ UNCHANGED <<dp_table, cp, gpc, lpos, dpos, current_chunk, chunk_num,
                   total_processed, flushing, generated>>
    /\ UNCHANGED <<pipeline, uncaught, disVars, finVars, smiVars, fanOthers>>

\* save_chunk: finally: conn.close(); return True / False.  The caller
\* ignores the value: total_processed += len(current_chunk);
\* current_chunk = [].
SaveChunkFinally ==
    /\ gpc = "save_chunk"
    /\ sconn
    /\ sconn' = FALSE
    /\ total_processed' = total_processed + Len(current_chunk)
    /\ current_chunk' = << >>
    /\ flushing' = FALSE
    /\ gpc' = IF flushing THEN "done" ELSE "lines"
    /\ UNCHANGED <<dp_table, cp, lpos, dpos, chunk_num, dctable, handed,
                   generated>>
    /\ UNCHANGED <<pipeline, uncaught, disVars, finVars, smiVars, fanOthers>>

NextCompounds ==
    \/ NoLinks
    \/ StartLines
    \/ SkipLine
    \/ JoinStep
    \/ Flush
    \/ SaveChunkBody
    \/ SaveChunkFinally

IdleFanout ==
    /\ pipeline = "none"
    /\ uncaught = FALSE
    /\ IdleDisease
    /\ IdleFinder
    /\ IdleSmiles
    /\ IdleCompounds

InitFanout ==
    /\ uncaught = FALSE
    /\ \/ InitDisease /\ IdleFinder /\ IdleSmiles /\ IdleCompounds
       \/ InitFinder /\ IdleDisease /\ IdleSmiles /\ IdleCompounds
       \/ InitSmiles /\ IdleDisease /\ IdleFinder /\ IdleCompounds
       \/ InitCompounds /\ IdleDisease /\ IdleFinder /\ IdleSmiles

NextFanout == NextDisease \/ NextFinder \/ NextSmiles \/ NextCompounds

-----------------------------------------------------------------------------
(***************************************************************************)
(* The specifications                                                      *)
(***************************************************************************)

InitSpecRetry == InitRetry /\ IdleLimiter /\ IdleExtract /\ IdleFanout

SpecRetry == InitSpecRetry /\ [][NextRetry]_vars

InitSpecLimiter == InitLimiter /\ IdleRetry /\ IdleExtract /\ IdleFanout

SpecLimiter == InitSpecLimiter /\ [][NextLimiter]_vars

\* The next statement of the thread that is inside `with self.lock`, the
\* return of its time.sleep included.
HolderStep ==
    \E t \in Threads :
        ReadClock(t) \/ Evict(t) \/ Check(t) \/ Wake(t) \/ Put(t)

\* Scheduling of the limiter's threads: the thread inside the lock executes
\* its next statement, time passes, time.sleep returns once its time has
\* passed, and the lock is fair: a thread blocked in `with self.lock`
\* gets the lock if it is released again and again.  Nothing obliges a
\* thread to call acquire().
LimiterFairness ==
    /\ \A t \in Threads : SF_vars(TakeLock(t))
    /\ WF_vars(HolderStep)
    /\ WF_vars(Tick)

SpecLimiterFair == InitSpecLimiter /\ [][NextLimiter]_vars /\ LimiterFairness

InitSpecExtract == InitExtract /\ IdleRetry /\ IdleLimiter /\ IdleFanout

SpecExtract == InitSpecExtract /\ [][NextExtract]_vars

InitSpecFanout == InitFanout /\ IdleRetry /\ IdleLimiter /\ IdleExtract

SpecFanout == InitSpecFanout /\ [][NextFanout]_vars

-----------------------------------------------------------------------------
(***************************************************************************)
(* Claims about the retry helpers                                          *)
(***************************************************************************)

\* A failed attempt in the words of the specification: a network exception
\* or a response whose status is not 200.
Fails(o) == o.kind = "exc" \/ (o.kind = "resp" /\ o.status # 200)

Is200(o) == o.kind = "resp" /\ o.status = 200

FailsBefore(k) == \A j \in 1..(k - 1) : Fails(script[j])

\* C1 as stated: for both helpers, if attempts 1..k-1 fail (non-200 or an
\* exception) and attempt k returns 200 with k <= max_retries, the helper
\* returns the attempt-k response and issues no GET after attempt k.
C1_AsStated ==
    \A h \in Helpers : \A k \in 1..MaxRetries :
        (k <= max_retries /\ FailsBefore(k) /\ Is200(script[k]))
        => /\ gets[h] <= k
           /\ rpc[h] = "done" => ret[h] = Response(k, script[k])

\* C1 (amended): as C1, where for request_with_retry the 200 response of
\* attempt k must also have a non-blank body (make_request_with_retry
\* accepts any 200 response).
C1_RetryReturnsFirstSuccess ==
    \A h \in Helpers : \A k \in 1..MaxRetries :
        ( /\ k <= max_retries
          /\ FailsBefore(k)
          /\ Is200(script[k])
          /\ (h = "request_with_retry" => ~script[k].blank) )
        => /\ gets[h] <= k
           /\ rpc[h] = "done" => ret[h] = Response(k, script[k])

\* Both helpers have returned the response of an attempt after the first,
\* the earlier attempts having failed.
C1_Witness ==
    \A h \in Helpers :
        /\ rpc[h] = "done"
        /\ ret[h].kind = "resp"
        /\ ret[h].attempt >= 2
        /\ FailsBefore(ret[h].attempt)

\* C2: for both helpers, if every attempt fails (non-200 or an exception)
\* the helper issues exactly max_retries GETs, never more, and then returns
\* None without raising.
C2_ExhaustionAfterMaxRetries ==
    \A h \in Helpers :
        /\ rpc[h] # "raised"
        /\ FailsBefore(max_retries + 1) =>
              /\ gets[h] <= max_retries
              /\ rpc[h] = "done" => (gets[h] = max_retries /\ ret[h] = None)

\* Both helpers gave up after several failed attempts.
C2_Witness ==
    /\ max_retries >= 2
    /\ FailsBefore(max_retries + 1)
    /\ \A h \in Helpers :
          rpc[h] = "done" /\ ret[h] = None /\ gets[h] = max_retries

-----------------------------------------------------------------------------
(***************************************************************************)
(* Claims about RateLimiter                                                *)
(***************************************************************************)

\* The grants that fall in the trailing window of length time_period that
\* ends with grant i.
GrantsInWindow(i) ==
    {j \in 1..Len(grants) :
        /\ grants[j].at <= grants[i].at
        /\ grants[j].at > grants[i].at - time_period}

\* C3 as stated: for any number of threads and any interleaving, the number
\* of acquire() calls that return within any trailing window of length
\* time_period never exceeds max_calls.
C3_WindowBound ==
    \A i \in 1..Len(grants) : Cardinality(GrantsInWindow(i)) <= max_calls

\* C4: of max_calls + 1 acquisitions issued from an empty queue, the
\* (max_calls+1)-th does not return before time_period has elapsed since
\* the first acquisition.
C4_ExtraCallDelayed ==
    Len(grants) >= max_calls + 1 =>
        grants[max_calls + 1].at >= grants[1].at + time_period

\* The (max_calls+1)-th acquisition found the queue full, slept and returned.
C4_Witness ==
    /\ max_calls >= 2
    /\ Len(grants) >= max_calls + 1
    /\ grants[max_calls + 1].at > grants[max_calls + 1].stamp
    /\ grants[max_calls].at < grants[1].at + time_period

\* C5: acquire() is a critical section: every thread between reading the
\* clock and recording its timestamp (reading, evicting, sleeping,
\* appending) holds the limiter lock, so at most one thread is there at a
\* time and a sleeping thread keeps every other thread out.
C5_CriticalSection ==
    /\ \A t \in Threads : tpc[t] \in InLock => lock = t
    /\ Cardinality({t \in Threads : tpc[t] \in InLock}) <= 1

\* One thread sleeps inside acquire() while another waits for the lock.
C5_Witness ==
    \E t, u \in Threads :
        /\ tpc[t] = "sleeping"
        /\ now < wake_at[t]
        /\ tpc[u] = "lock"

-----------------------------------------------------------------------------
(***************************************************************************)
(* Claims about the section extractors                                     *)
(***************************************************************************)

\* C6 as stated: for a record whose header line is followed by 3 indented
\* lines and then a non-indented line, exactly the codes appearing in those
\* 4 lines are extracted, and none from any later line, indented or not.
C6_AsStated == shape = "closed" => Extracted = expected

\* C6 (amended): as C6, where the PATHWAY scan of get_disease_pathways
\* extracts the first code of each of the 4 lines (re.search) and the
\* finder's three extractors extract every code of the 4 lines (re.findall).
C6_SectionCodesOnly ==
    shape = "closed" =>
        Extracted = IF fn = "get_disease_pathways" THEN expectedFirst
                    ELSE expected

\* The section of 4 lines was closed and an indented line holding a code
\* that is not in the section was scanned after it.
C6_Witness ==
    /\ shape = "closed"
    /\ lineNo >= 6
    /\ StartsWithIndent(line)
    /\ Extracted # {}
    /\ ~(Range(FindAll(fn, line.words)) \subseteq Extracted)

\* C7: a record with no line beginning with the section keyword yields an
\* empty result; a continuation line of the open section without a code
\* adds nothing, raises nothing and leaves the section open, and the codes
\* of every continuation line scanned in the open section are extracted.
C7_TolerantScan ==
    /\ [](shape = "before" => Extracted = {})
    /\ [](epc # "raised")
    /\ [][(lineNo' = lineNo + 1 /\ in_section /\ StartsWithIndent(line')) =>
             /\ in_section'
             /\ FindAll(fn, line'.words) = << >> => Extracted' = Extracted
             /\ Range(LineCodes(fn, line')) \subseteq Extracted']_vars

\* A codeless line was scanned inside the open section and the code of a
\* continuation line after it has been extracted.
C7_Witness ==
    /\ skipped
    /\ in_section
    /\ StartsWithIndent(line)
    /\ LineCodes(fn, line) # << >>
    /\ Range(LineCodes(fn, line)) \subseteq Extracted
    /\ Cardinality(Extracted) = 1

-----------------------------------------------------------------------------
(***************************************************************************)
(* Claims about the fan-out stages                                         *)
(***************************************************************************)

\* The list a method of the finder fans out over.
MethodInput(m) ==
    CASE m \in {1, 2} -> drug_ids
      [] m \in {3, 4} -> pathway_ids
      [] OTHER -> SetToSeq({pr[1] : pr \in disease_drug_pairs})

\* The states allowed while a fan-out stage works on an empty list.
C8_State ==
    /\ (pipeline \in {"main", "process_diseases_chunk"} /\ diseases = << >>) =>
          /\ ~uncaught
          /\ all_results = << >>
          /\ Flatten(cres) = << >>
          /\ raisedIds = {}
    /\ (pipeline = "run_parallel_methods" /\ method \in Methods
            /\ MethodInput(method) = << >>) =>
          /\ tasks = << >>
          /\ fpc # "drain"
          /\ ~caught
          /\ method \in 1..4 => drug_pathway_pairs = {}
    /\ (pipeline = "run_parallel_methods" /\ drug_ids = << >>
            /\ pathway_ids = << >> /\ disease_drug_pairs = {}) =>
          /\ drug_pathway_pairs = {}
          /\ ~caught
    /\ (pipeline = "smiles" /\ items = << >>) =>
          /\ sstate = << >>
          /\ sraised = {}

\* C8: every fan-out stage given an ID list of size 0 yields an empty
\* result and no error.  An empty disease list gives main and
\* process_diseases_chunk no result entry and no exception; a finder method
\* whose input list is empty submits no task and raises nothing, methods
\* 1-4 leave drug_pathway_pairs empty, and a run whose three input lists
\* are empty saves no row; the SMILES pool given no item runs no task and
\* writes no structure row.
C8_EmptyInputEmptyResult ==
    /\ []C8_State
    /\ [][(pipeline = "smiles" /\ items = << >>) =>
             structures' = structures]_vars
    /\ [][(pipeline = "run_parallel_methods" /\ method' \in Methods
              /\ MethodInput(method') = << >>) =>
             drug_pathway_pairs' = drug_pathway_pairs]_vars
    /\ [][(pipeline = "run_parallel_methods" /\ drug_ids = << >>
              /\ pathway_ids = << >> /\ disease_drug_pairs = {}) =>
             table' = table]_vars

\* The finder ran its five methods on empty Drugs, Pathways and
\* DiseaseDrugs tables and saved.
C8_Witness ==
    /\ pipeline = "run_parallel_methods"
    /\ drug_ids = << >>
    /\ pathway_ids = << >>
    /\ disease_drug_pairs = {}
    /\ started = Methods
    /\ fpc = "done"
    /\ saves = 1

\* C9: process_diseases_chunk returns exactly one (disease_id, pathways)
\* entry per input ID, in input order; an ID whose processing raised has
\* the empty pathway list, and the IDs after it are processed as well.
C9_PerItemIsolation ==
    \A c \in 1..Len(cstate) :
        /\ cstate[c] \in {"running", "done"} =>
              /\ Len(cres[c]) = cpos[c] - 1
              /\ \A i \in 1..Len(cres[c]) :
                    /\ cres[c][i][1] = disease_chunks[c][i]
                    /\ disease_chunks[c][i] \in raisedIds =>
                          cres[c][i][2] = << >>
        /\ cstate[c] = "done" => Len(cres[c]) = Len(disease_chunks[c])

\* process_diseases_chunk returned: an ID raised and a later ID of the
\* list has its pathways recorded.
C9_Witness ==
    /\ pipeline = "process_diseases_chunk"
    /\ mpc = "done"
    /\ \E i, j \in 1..Len(all_results) :
          /\ i < j
          /\ all_results[i][1] \in raisedIds
          /\ all_results[i][2] = << >>
          /\ all_results[j][2] # << >>

\* C10 as stated: when run_parallel_methods has finished, the pairs
\* returned by every task that did not raise are in drug_pathway_pairs,
\* whatever another task of the same method did, and all five methods ran.
C10_TaskFailureIsolated ==
    (pipeline = "run_parallel_methods" /\ fpc = "done") =>
        /\ produced \subseteq drug_pathway_pairs
        /\ started = Methods

-----------------------------------------------------------------------------
(***************************************************************************)
(* Claims about the persistence sinks                                      *)
(***************************************************************************)

\* No two rows of the table hold the same pair.
NoDuplicateRows(tbl) == \A row \in DOMAIN tbl : tbl[row] = 1

\* The outcome of a save_chunk call that commits.
Committed(chunk) == [ok |-> TRUE, done |-> Len(chunk)]

\* C11: the database sinks are idempotent.  Once save_results has written
\* drug_pathway_pairs, and once a save_chunk call has committed its chunk,
\* running the sink again on the same input leaves the same rows and the
\* same row count; DrugPathways and DiseaseCompounds never hold two rows
\* with the same pair.
C11_SinkIdempotent ==
    /\ NoDuplicateRows(table)
    /\ NoDuplicateRows(dctable)
    /\ (pipeline = "run_parallel_methods" /\ fpc = "done") =>
          /\ drug_pathway_pairs \subseteq DOMAIN table
          /\ SaveResultsRows(table, drug_pathway_pairs) = table
          /\ RowCount(SaveResultsRows(table, drug_pathway_pairs)) =
                RowCount(table)
    /\ (gpc = "save_chunk" /\ sconn /\ handed[Len(handed)].ok) =>
          /\ Range(current_chunk) \subseteq DOMAIN dctable
          /\ SaveChunkRows(dctable, current_chunk, Committed(current_chunk)) =
                dctable
          /\ RowCount(SaveChunkRows(dctable, current_chunk,
                                    Committed(current_chunk))) =
                RowCount(dctable)

\* save_chunk committed a chunk that holds a pair twice and a pair the
\* table already had, and a second chunk is being saved.
C11_Witness ==
    /\ gpc = "save_chunk"
    /\ sconn
    /\ Len(handed) = 2
    /\ handed[1].ok
    /\ handed[2].ok
    /\ Cardinality(Range(handed[1].chunk)) < Len(handed[1].chunk)
    /\ Range(handed[2].chunk) \subseteq Range(handed[1].chunk)
    /\ RowCount(dctable) = 1

\* The inserts committed for an ID, in commit order.
CommitsOf(id) == SelectSeq(commits, LAMBDA c : c[1] = id)

\* C12: structure records are replace-on-conflict.  Whatever inserts the
\* worker threads have committed, in whatever order, the structure table
\* holds at most one row per entity ID, and the row of an ID with a
\* committed insert carries the SMILES of the last one.
C12_ReplaceOnConflict ==
    /\ NoDuplicateRows(structures)
    /\ \A r1, r2 \in DOMAIN structures : r1[1] = r2[1] => r1 = r2
    /\ \A id \in {c[1] : c \in Range(commits)} :
          LET cs == CommitsOf(id)
          IN <<id, cs[Len(cs)][2]>> \in DOMAIN structures

\* Two tasks of the pool committed different SMILES for the same ID and
\* the pool has finished.
C12_Witness ==
    /\ pipeline = "smiles"
    /\ Len(commits) = 2
    /\ commits[1][1] = commits[2][1]
    /\ commits[1][2] # commits[2][2]
    /\ spc = "done"

-----------------------------------------------------------------------------
(***************************************************************************)
(* Claims about the disease pipeline and its file sink                     *)
(***************************************************************************)

\* The (disease, pathway) relationships of a results list, in order.
Relationships(results) ==
    Flatten([i \in 1..Len(results) |->
                [j \in 1..Len(results[i][2]) |->
                    <<results[i][1], results[i][2][j]>>]])

\* C13: the file written by write_sql_file is BEGIN TRANSACTION, one DELETE
\* FROM DiseasePathways, exactly one INSERT per (disease, pathway)
\* relationship of the results, and COMMIT last; the returned insert_count
\* is the number of INSERT statements and the sum of the pathway-list
\* lengths, and diseases_with_pathways + diseases_without_pathways is the
\* number of result entries.
C13_FileSinkLayout ==
    (pipeline = "main" /\ mpc = "written") =>
        LET n == Len(sql_file)
            rel == Relationships(all_results)
        IN /\ n >= 3
           /\ sql_file[1] = Begin
           /\ sql_file[2] = DeleteAll
           /\ sql_file[n] = Commit
           /\ \A k \in 3..(n - 1) : sql_file[k].stmt = "INSERT"
           /\ n - 3 = Len(rel)
           /\ \A k \in 1..Len(rel) :
                 sql_file[k + 2] = Insert(rel[k][1], AddPath(rel[k][2]))
           /\ counts.insert_count = n - 3
           /\ counts.diseases_with_pathways + counts.diseases_without_pathways
                 = Len(all_results)

\* The file was written for three diseases: one with two pathways, one
\* with one, one with none.
C13_Witness ==
    /\ pipeline = "main"
    /\ mpc = "written"
    /\ Len(all_results) = 3
    /\ {Len(all_results[i][2]) : i \in 1..3} = {0, 1, 2}
    /\ counts.insert_count = 3

\* No element occurs twice in the sequence.
NoRepeats(q) == \A i, j \in 1..Len(q) : q[i] = q[j] => i = j

\* C14 as stated: within one run no sink is handed the same pair twice.
\* The pathway list get_disease_pathways returns for a disease has no
\* pathway twice, the unique_pairs list save_results inserts has no pair
\* twice, and the associations get_disease_compounds passes to save_chunk
\* hold no (disease_id, compound_id) pair twice, for a link response
\* that has no line twice.
C14_NoPairTwice ==
    /\ \A c \in 1..Len(cres) : \A i \in 1..Len(cres[c]) :
          NoRepeats(cres[c][i][2])
    /\ NoRepeats(SetToSeq(drug_pathway_pairs))
    /\ (cp.kind = "resp" /\ NoRepeats(cp.lines)) =>
          /\ NoRepeats(generated)
          /\ NoRepeats(Flatten([k \in 1..Len(handed) |-> handed[k].chunk]))

\* The two pathways of the end-to-end scenario.
ScenarioPathways ==
    {PathwayId("hsa", WordCode1), PathwayId("hsa", WordCode2)}

\* C15: a disease whose link answer is the single line path:hsa04910, whose
\* entry has a PATHWAY section naming hsa04930 and whose gene requests give
\* no data has exactly the relationship set {hsa04910, hsa04930}; when it is
\* the only disease of the list, the SQL file holds exactly two INSERT
\* statements, one per pathway, each with a single path: prefix.
C15_EndToEnd ==
    (pipeline = "main" /\ mpc = "written") =>
        /\ \A i \in 1..Len(all_results) :
              all_results[i][1] \in scenarioIds =>
                  /\ Range(all_results[i][2]) = ScenarioPathways
                  /\ Len(all_results[i][2]) = 2
        /\ (Len(diseases) = 1 /\ diseases[1] \in scenarioIds) =>
              /\ Len(all_results) = 1
              /\ Len(sql_file) = 5
              /\ {sql_file[3], sql_file[4]} =
                    {Insert(diseases[1], PathwayId("path:hsa", WordCode1)),
                     Insert(diseases[1], PathwayId("path:hsa", WordCode2))}
              /\ counts.insert_count = 2

\* The file was written for the one-disease list of the scenario.
C15_Witness ==
    /\ pipeline = "main"
    /\ mpc = "written"
    /\ Len(diseases) = 1
    /\ scenarioIds = {diseases[1]}
    /\ Len(sql_file) = 5

\* The rows of the INSERT statements of the SQL file.
InsertRows == {sql_file[k] : k \in {j \in 1..Len(sql_file) :
                                      sql_file[j].stmt = "INSERT"}}

\* C16: when every task returns its result, the final drug_pathway_pairs
\* is the union of the pairs the tasks returned, whatever the order in
\* which the futures completed and were read, and the table holds these
\* pairs next to the rows it had; the INSERT rows of the disease pipeline
\* are the pairs the per-disease calls returned, however the list was cut
\* into chunks and whichever process ran which chunk.
C16_OrderIndependent ==
    /\ (pipeline = "run_parallel_methods" /\ fpc = "done" /\ ~caught) =>
          /\ drug_pathway_pairs = produced
          /\ produced \subseteq DOMAIN table
          /\ DOMAIN table \subseteq
                produced \cup UNION {DOMAIN t : t \in DrugPathwaysTables}
    /\ (pipeline = "main" /\ mpc = "written") =>
          InsertRows = {Insert(x[1], AddPath(x[2])) : x \in returnedPairs}

\* The run ended without an exception after the futures of the last
\* method were read in the reverse of their submission order, two pairs
\* having been returned.
C16_Witness ==
    /\ pipeline = "run_parallel_methods"
    /\ fpc = "done"
    /\ ~caught
    /\ Len(consumed) >= 2
    /\ consumed[1] > consumed[2]
    /\ Cardinality(produced) >= 2

\* C17: a get_mol_file call that finds mol_files/{id}.mol returns its path
\* with no HTTP request and leaves every cache file as it was; a download
\* creates the file only from a non-empty text, and a call whose download
\* gave no text leaves the cache as it was.
C17_MolCache ==
    /\ [](\A d \in DOMAIN mol_files : mol_files[d] # NoText)
    /\ [][\A i \in 1..Len(sstate) :
             /\ (/\ Len(sstate') = Len(sstate)
                 /\ sstate[i] = "running"
                 /\ sstate'[i] # "running"
                 /\ items[i] \in DOMAIN mol_files) =>
                    /\ sstate'[i] = "molfile"
                    /\ mol_files' = mol_files
                    /\ molcall'[i] = [hit |-> TRUE, requests |-> 0,
                                      path |-> TRUE]
             /\ (/\ Len(sstate') = Len(sstate)
                 /\ sstate[i] = "fetching"
                 /\ sstate'[i] # "fetching") =>
                    IF molcall'[i].path
                    THEN /\ items[i] \in DOMAIN mol_files'
                         /\ mol_files'[items[i]] # NoText
                         /\ molcall'[i].requests >= 1
                    ELSE mol_files' = mol_files]_vars

\* One call found its file and made no request while another call's
\* download failed after its requests and left no file.
C17_Witness ==
    /\ pipeline = "smiles"
    /\ \E i, j \in 1..Len(molcall) :
          /\ molcall[i].hit
          /\ molcall[i].requests = 0
          /\ ~molcall[j].hit
          /\ molcall[j].requests >= 2
          /\ ~molcall[j].path
          /\ items[j] \notin DOMAIN mol_files

\* C18: a disease whose every request returned None gets an entry with an
\* empty pathway list (its call did not raise), write_sql_file writes no
\* INSERT for it and counts it among the diseases without pathways, and
\* every disease of the list, those after it included, has its entry.
C18_NoDataNotAnError ==
    /\ noDataIds \cap raisedIds = {}
    /\ \A c \in 1..Len(cres) : \A i \in 1..Len(cres[c]) :
          cres[c][i][1] \in noDataIds => cres[c][i][2] = << >>
    /\ (pipeline = "main" /\ mpc = "written") =>
          /\ ~uncaught
          /\ Len(all_results) = Len(diseases)
          /\ \A k \in 1..Len(diseases) :
                /\ all_results[k][1] = diseases[k]
                /\ diseases[k] \in noDataIds =>
                      /\ all_results[k][2] = << >>
                      /\ \A j \in 1..Len(sql_file) :
                            sql_file[j].stmt = "INSERT" =>
                               sql_file[j].disease_id # diseases[k]
          /\ counts.diseases_without_pathways =
                Cardinality({k \in 1..Len(all_results) :
                                all_results[k][2] = << >>})
          /\ counts.diseases_without_pathways >=
                Cardinality(noDataIds \cap Range(diseases))

\* The file was written for a list whose first disease had no answer at
\* all and whose second disease has pathways.
C18_Witness ==
    /\ pipeline = "main"
    /\ mpc = "written"
    /\ Len(diseases) >= 2
    /\ diseases[1] \in noDataIds
    /\ all_results[2][2] # << >>
    /\ counts.diseases_without_pathways >= 1
    /\ counts.diseases_with_pathways >= 1

\* The rows of the chunks save_chunk committed so far.
CommittedRows ==
    UNION {Range(handed[k].chunk) : k \in {j \in 1..Len(handed) : handed[j].ok}}

\* C19: a save_chunk call whose insert or commit fails leaves
\* DiseaseCompounds as it was before the call and returns False; the rows
\* of the chunks committed before stay in the table, and
\* get_disease_compounds hands every later chunk to save_chunk all the
\* same.  A failed insert_drug_structures / insert_compound_structures
\* leaves the structures table as it was, rows committed earlier included.
C19_RollbackCurrentOnly ==
    /\ [](/\ CommittedRows \subseteq DOMAIN dctable
          /\ DOMAIN dctable \subseteq
                CommittedRows \cup UNION {DOMAIN t : t \in DiseaseCompoundsTables}
          /\ gpc = "done" =>
                /\ Flatten([k \in 1..Len(handed) |-> handed[k].chunk]) = generated
                /\ total_processed = Len(generated))
    /\ [][(Len(handed') = Len(handed) + 1 /\ ~handed'[Len(handed')].ok) =>
             dctable' = dctable]_vars
    /\ [][DOMAIN dctable \subseteq DOMAIN dctable']_vars
    /\ [][(pipeline = "smiles" /\ commits' = commits) =>
             structures' = structures]_vars

\* save_chunk committed the first chunk, failed on the second and was
\* given a third; the rows of the first are in the table.
C19_Witness ==
    /\ pipeline = "get_disease_compounds"
    /\ Len(handed) >= 3
    /\ handed[1].ok
    /\ ~handed[2].ok
    /\ Range(handed[1].chunk) \subseteq DOMAIN dctable
    /\ ~(Range(handed[2].chunk) \subseteq DOMAIN dctable)

\* C20: every process_drug / process_compound call in flight holds exactly
\* its own open connection and no finished call holds one, whether it
\* returned or raised, so at most `workers` connections are open at once
\* and none is open after the pool; the connection of save_chunk is open
\* only during that call.
C20_ConnectionPerCall ==
    /\ conns = {i \in 1..Len(sstate) : sstate[i] \in InFlight}
    /\ Cardinality(conns) <= workers
    /\ spc = "done" => conns = {}
    /\ sconn => (pipeline = "get_disease_compounds" /\ gpc = "save_chunk")
    /\ gpc = "done" => ~sconn

\* One call has raised and its connection is closed while another call is
\* in flight with its connection open.
C20_Witness ==
    /\ pipeline = "smiles"
    /\ \E i, j \in 1..Len(sstate) :
          /\ sstate[i] = "failed"
          /\ items[i] \in sraised
          /\ i \notin conns
          /\ sstate[j] \in InFlight
          /\ j \in conns

ContiguousPartition(list, n) ==
    LET size == ChunkSize(Len(list), n)
        chunks == Chunks(list, size)
    IN /\ size = Max(1, Len(list) \div n)
       /\ Flatten(chunks) = list
       /\ \A c \in 1..Len(chunks) : chunks[c] # << >>
       /\ \A c \in 1..(Len(chunks) - 1) : Len(chunks[c]) = size
       /\ Len(chunks[Len(chunks)]) <= size

\* The chunking of every list of 1 to 7 diseases for 1 to 4 workers is a
\* contiguous partition.
ChunkingLaw ==
    \A len \in 1..7 : \A n \in 1..4 :
       ContiguousPartition([i \in 1..len |-> i], n)

\* C22: for a non-empty disease list main builds non-empty contiguous
\* chunks whose concatenation in chunk order is the list, every chunk but
\* the last having max(1, len(diseases) // n_workers) elements, and the
\* flattened results name the diseases in the order of the list.
C22_ContiguousPartition ==
    /\ ChunkingLaw
    /\ (pipeline = "main" /\ diseases # << >> /\ mpc # "fetched") =>
          /\ mpc \in {"pool", "done", "written"}
          /\ disease_chunks =
                Chunks(diseases, Max(1, Len(diseases) \div n_workers))
          /\ Flatten(disease_chunks) = diseases
          /\ \A c \in 1..Len(disease_chunks) : disease_chunks[c] # << >>
          /\ mpc \in {"done", "written"} =>
                [i \in 1..Len(all_results) |-> all_results[i][1]] = diseases

\* Three diseases were split for two workers into three chunks, the chunks
\* ran and the results were flattened.
C22_Witness ==
    /\ pipeline = "main"
    /\ n_workers = 2
    /\ Len(diseases) = 3
    /\ Len(disease_chunks) = 3
    /\ mpc = "done"
    /\ Len(all_results) = 3

\* C23: run_parallel_methods calls save_results exactly once, after
\* method 5 or after the except clause; once a method has raised no
\* further method is started, and every pair merged into
\* drug_pathway_pairs until then is in the table after the save.
C23_SavesOnEveryPath ==
    /\ [](pipeline = "run_parallel_methods" =>
             /\ saves = IF fpc = "done" THEN 1 ELSE 0
             /\ fpc = "done" => drug_pathway_pairs \subseteq DOMAIN table
             /\ (fpc = "done" /\ ~caught) => started = Methods)
    /\ [][(fpc \in {"drain", "save", "done"}) =>
             (started' = started /\ drug_pathway_pairs' = drug_pathway_pairs)]_vars

\* A task of method 2 raised after method 1 had merged a pair: methods 3
\* to 5 did not start, and the one save wrote the pair.
C23_Witness ==
    /\ pipeline = "run_parallel_methods"
    /\ fpc = "done"
    /\ caught
    /\ saves = 1
    /\ started = {1, 2}
    /\ drug_pathway_pairs # {}
    /\ drug_pathway_pairs \subseteq DOMAIN table

\* The pairs the join of the link lines with DiseasePathways defines: a
\* two-part line (path:mapN, compound) gives (disease_id, compound without
\* cpd:) for every disease_id that has path:hsaN.
JoinedPairs ==
    {<<x[1][1], [cpd |-> FALSE, id |-> cp.lines[x[2]].compound.id]>> :
        x \in {y \in dp_table \X (1..Len(cp.lines)) :
                  /\ cp.lines[y[2]].parts = 2
                  /\ cp.lines[y[2]].pathway.pre = "path:map"
                  /\ y[1][2] = [pre |-> "path:hsa",
                                num |-> cp.lines[y[2]].pathway.num]}}

\* C24: when get_disease_compounds has returned, the pairs it handed to
\* save_chunk are exactly the pairs of the join: a line whose pathway does
\* not start with path:map, or with no second part, gives nothing, and no
\* compound_id handed over carries the cpd: prefix.
C24_DiseaseCompoundJoin ==
    (pipeline = "get_disease_compounds" /\ gpc = "done" /\ cp # None) =>
        /\ Range(Flatten([k \in 1..Len(handed) |-> handed[k].chunk]))
              = JoinedPairs
        /\ Range(generated) = JoinedPairs
        /\ \A k \in 1..Len(handed) : \A x \in Range(handed[k].chunk) :
              ~x[2].cpd

\* The function returned after a response with a path:hsa line and a
\* path:map line of a prefixed compound, the second of which joined.
C24_Witness ==
    /\ pipeline = "get_disease_compounds"
    /\ gpc = "done"
    /\ cp # None
    /\ \E k \in 1..Len(cp.lines) :
          cp.lines[k].parts = 2 /\ cp.lines[k].pathway.pre = "path:hsa"
    /\ \E k \in 1..Len(cp.lines) :
          /\ cp.lines[k].parts = 2
          /\ cp.lines[k].pathway.pre = "path:map"
          /\ cp.lines[k].compound.cpd
    /\ Len(handed) >= 1
    /\ Len(generated) = 1

\* The chunks handed to save_chunk so far, one after the other.
HandedPairs == Flatten([k \in 1..Len(handed) |-> handed[k].chunk])

\* The batches save_results cuts unique_pairs into.
SaveBatchesOf(pairs) == Chunks(SetToSeq(pairs), SaveBatchSize)

\* C25: the chunks handed to save_chunk, followed by the chunk still being
\* filled, are the generated associations in order, each once; every chunk
\* handed over has between 1 and chunk_size entries and only the final
\* flush hands over fewer than chunk_size; on return nothing is left in
\* current_chunk and total_processed is the number of associations
\* generated.  The batches of save_results are non-empty, of at most the
\* batch size, and their concatenation is the pair list.
C25_ChunkedSaving ==
    /\ pipeline = "get_disease_compounds" =>
          /\ HandedPairs \o (IF gpc = "save_chunk" /\ sconn
                             THEN << >> ELSE current_chunk) = generated
          /\ \A k \in 1..Len(handed) :
                /\ handed[k].chunk # << >>
                /\ Len(handed[k].chunk) <= chunk_size
                /\ handed[k].num = k
                /\ Len(handed[k].chunk) < chunk_size =>
                      (k = Len(handed) /\ (flushing \/ gpc = "done"))
          /\ Len(current_chunk) <= chunk_size
          /\ gpc = "done" =>
                /\ current_chunk = << >>
                /\ HandedPairs = generated
                /\ total_processed = Len(generated)
    /\ (pipeline = "run_parallel_methods" /\ fpc \in {"save", "done"}) =>
          /\ Flatten(SaveBatchesOf(drug_pathway_pairs))
                = SetToSeq(drug_pathway_pairs)
          /\ \A b \in 1..Len(SaveBatchesOf(drug_pathway_pairs)) :
                /\ SaveBatchesOf(drug_pathway_pairs)[b] # << >>
                /\ Len(SaveBatchesOf(drug_pathway_pairs)[b]) <= SaveBatchSize
          /\ fpc = "done" => drug_pathway_pairs \subseteq DOMAIN table

\* Three associations were generated: a full chunk was saved during the
\* loop and the remaining one by the final flush.
C25_Witness ==
    /\ pipeline = "get_disease_compounds"
    /\ gpc = "done"
    /\ Len(generated) = chunk_size + 1
    /\ Len(handed) = 2
    /\ Len(handed[1].chunk) = chunk_size
    /\ Len(handed[2].chunk) = 1
    /\ total_processed = chunk_size + 1

\* Every 200 response of the script has a non-blank body.
NoBlankSuccess ==
    \A k \in DOMAIN script :
       (script[k].kind = "resp" /\ script[k].status = 200) => ~script[k].blank

\* C26: on a sequence of outcomes whose 200 responses all have a non-blank
\* body, and with the same max_retries, the two helpers issue the same
\* number of GETs and return the same value: the same response, or None.
C26_HelpersEquivalent ==
    (/\ NoBlankSuccess
     /\ rpc["make_request_with_retry"] = "done"
     /\ rpc["request_with_retry"] = "done") =>
        /\ gets["make_request_with_retry"] = gets["request_with_retry"]
        /\ ret["make_request_with_retry"] = ret["request_with_retry"]
        /\ sleeps["make_request_with_retry"] = sleeps["request_with_retry"]

\* Both helpers returned the response of the third GET after an exception
\* and a non-200 answer.
C26_Witness ==
    /\ NoBlankSuccess
    /\ rpc["make_request_with_retry"] = "done"
    /\ rpc["request_with_retry"] = "done"
    /\ max_retries = 3
    /\ script[1].kind = "exc"
    /\ script[2].kind = "resp" /\ script[2].status # 200
    /\ ret["make_request_with_retry"].kind = "resp"
    /\ ret["request_with_retry"].kind = "resp"
    /\ gets["request_with_retry"] = 3

\* C27 as stated: every pair held in drug_pathway_pairs names a drug of the
\* loaded Drugs list and a pathway of the loaded Pathways list, whichever
\* of methods 1-5 have run.
C27_PairsReferenceLoaded ==
    pipeline = "run_parallel_methods" =>
        \A pr \in drug_pathway_pairs :
           /\ pr[1] \in Range(drug_ids)
           /\ pr[2] \in Range(pathway_ids)

\* C28 as stated: whenever no thread is inside acquire()'s critical
\* section (every acquire() that took the lock has returned), the
\* timestamp queue holds at most max_calls entries and its entries are in
\* non-decreasing order.
C28_QueueBoundedSorted ==
    lock = NoThread =>
        /\ Len(calls) <= max_calls
        /\ \A i \in 1..Len(calls) : \A j \in i..Len(calls) :
              calls[i] <= calls[j]

\* C29: acquire() always returns.  A thread sleeps at most once in one
\* acquire() and its sleep ends at most time_period after it began; when
\* every thread is back from acquire() every call made has been granted;
\* and, the lock being fair, every thread that has called acquire() and
\* waits for the lock, sleeps inside it or runs inside it, returns from it.
C29_AcquireReturns ==
    /\ [](\A t \in Threads :
             /\ naps[t] <= 1
             /\ tpc[t] = "sleeping" =>
                   (naps[t] = 1 /\ wake_at[t] - now <= time_period))
    /\ []((\A t \in Threads : tpc[t] = "idle") =>
             Len(grants) = acquired[1] + acquired[2])
    /\ \A t \in Threads : (tpc[t] # "idle") ~> (tpc[t] = "idle")

\* Every thread made all its calls and all were granted, one thread after
\* sleeping inside its last acquire().
C29_Witness ==
    /\ \A t \in Threads :
          tpc[t] = "idle" /\ acquired[t] = Cardinality(AcquireCalls)
    /\ Len(grants) = Cardinality(Threads) * Cardinality(AcquireCalls)
    /\ \E t \in Threads : naps[t] = 1
    /\ \E i \in 1..Len(grants) : grants[i].at > grants[i].stamp

\* C30 as stated: main splits the disease list into at most n_workers
\* chunks, so that no worker process of the pool is given two chunks.
C30_AtMostOneChunkPerWorker ==
    pipeline = "main" => Len(disease_chunks) <= n_workers

\* C31: both retry helpers sleep once after every failed attempt, the last
\* one included.  At every moment the sleeps done are the failed attempts
\* whose iteration has ended; a helper that returned None made max_retries
\* GETs and max_retries sleeps; a helper that returned the response of
\* attempt k made k - 1 sleeps.  A GET that does not return leads to the
\* sleep, the sleep counts once and leads back to the loop head, and None
\* is returned only from the loop head.
C31_SleepAfterEveryFailure ==
    /\ [](\A h \in Helpers :
             /\ sleeps[h] = attempt[h]
             /\ rpc[h] \in {"loop", "get"} => sleeps[h] = gets[h]
             /\ rpc[h] = "sleep" => sleeps[h] = gets[h] - 1
             /\ ret[h] = None =>
                   (sleeps[h] = max_retries /\ gets[h] = max_retries)
             /\ ret[h].kind = "resp" =>
                   (gets[h] = ret[h].attempt /\ sleeps[h] = ret[h].attempt - 1))
    /\ [][\A h \in Helpers : ((gets'[h] # gets[h] /\ ret'[h] = NotReturned) => (rpc'[h] = "sleep")) /\ ((rpc[h] = "sleep" /\ rpc'[h] # "sleep") => (rpc'[h] = "loop" /\ sleeps'[h] = sleeps[h] + 1)) /\ ((ret[h] # None /\ ret'[h] = None) => (rpc[h] = "loop" /\ sleeps[h] = max_retries))]_vars

\* With max_retries = 3, a 500 followed by a blank 200 and another 500:
\* make_request_with_retry returned the second response after one sleep,
\* request_with_retry returned None after three sleeps.
C31_Witness ==
    /\ max_retries = 3
    /\ ret["make_request_with_retry"].kind = "resp"
    /\ ret["make_request_with_retry"].attempt = 2
    /\ sleeps["make_request_with_retry"] = 1
    /\ ret["request_with_retry"] = None
    /\ sleeps["request_with_retry"] = 3
    /\ rpc["request_with_retry"] = "done"

=============================================================================
